---- MODULE Spec2Model ----
(***************************************************************************)
(* Model of the hub runtime (src/src/mlx_openai_server_hub/hub/runtime.py):*)
(* the process table of ModelProcessState objects, the table lock, the     *)
(* lifecycle operations of HubRuntime, the monitor thread and the child    *)
(* processes.                                                              *)
(*                                                                         *)
(* ModelProcessState objects have identity: reload_config builds new       *)
(* objects, while a call in flight keeps the object it looked up.  An      *)
(* object is named by <<name, generation>>; the table holds the objects of *)
(* the current generation.                                                 *)
(***************************************************************************)
EXTENDS Integers, Sequences, FiniteSets, TLC

\* ---------------------------------------------------------------- bounds
\* requests (start/stop/stop-all/reload/shutdown) served in one run
MaxOps == 2
\* minutes of idle time that may pass in one run
MaxTicks == 1
\* children that end on their own in one run
MaxExits == 1

\* ------------------------------------------------------------ vocabulary
\* Python None for a pid, a timestamp and an exit code
NoPid == 0
NoTime == 0
NoCode == 99
NoErr == "none"
NoRef == <<"none", 0>>
Free == "free"
NoGroup == "none"

Names == {"a", "b", "c"}
OpThreads == {"t1", "t2"}
Monitor == "mon"
Threads == OpThreads \cup {Monitor}
Gens == 0..MaxOps
ObjIds == Names \X Gens

\* signal numbers reported by Popen.returncode as negative exit codes
SIGTERM == -15
SIGKILL == -9
\* exit codes of a child that ends on its own
OwnExitCodes == {0, 1}
\* exit codes of a child that was sent terminate(): it exits cleanly or dies
\* of the signal (a child killed after the shutdown timeout ends the same
\* way as far as the runtime looks: with a non-zero code)
TermCodes == {0, SIGTERM}

\* seconds per idle_unload_trigger_min unit (runtime.py:395)
SecondsPerMinute == 60

\* ---------------------------------------------------------- configuration
\* A ModelSpec as load_hub_config returns it; only the fields the runtime
\* reads are kept, log_level standing for the fields _config_matches skips.
ModelSpec(n, p, j, g, l) ==
  [name |-> n, port |-> p, jit_enabled |-> j, group |-> g, log_level |-> l]

\* The hub.yaml contents a (re)load can produce.  One group "g"; max_loaded
\* and idle_unload_trigger_min use 0 for "not set".
\*  1: an auto-started model and two JIT models in one group of capacity 2
\*  2: as 1 with the port of "a" changed
\*  3: as 1 with the log level of "a" changed
\*  4: two JIT models in one group of capacity 1 with an idle policy
\*  5: as 4 with "c" removed
\*  6: as 1 with an idle policy
\*  7: as 1 with the models listed in the reverse order
\*  8: as 1 with max_loaded lowered to 1
\*  9: as 6 with "c" in no group
\* 10: as 4 without idle policy
\* 11: as 1 with "b" auto-started too
Configs ==
  << [models |-> << ModelSpec("a", 1, FALSE, "g", "INFO"),
                    ModelSpec("b", 2, TRUE, "g", "INFO"),
                    ModelSpec("c", 3, TRUE, "g", "INFO") >>,
      max_loaded |-> 2, idle_unload_trigger_min |-> 0],
     [models |-> << ModelSpec("a", 4, FALSE, "g", "INFO"),
                    ModelSpec("b", 2, TRUE, "g", "INFO"),
                    ModelSpec("c", 3, TRUE, "g", "INFO") >>,
      max_loaded |-> 2, idle_unload_trigger_min |-> 0],
     [models |-> << ModelSpec("a", 1, FALSE, "g", "DEBUG"),
                    ModelSpec("b", 2, TRUE, "g", "INFO"),
                    ModelSpec("c", 3, TRUE, "g", "INFO") >>,
      max_loaded |-> 2, idle_unload_trigger_min |-> 0],
     [models |-> << ModelSpec("b", 2, TRUE, "g", "INFO"),
                    ModelSpec("c", 3, TRUE, "g", "INFO") >>,
      max_loaded |-> 1, idle_unload_trigger_min |-> 1],
     [models |-> << ModelSpec("b", 2, TRUE, "g", "INFO") >>,
      max_loaded |-> 1, idle_unload_trigger_min |-> 1],
     [models |-> << ModelSpec("a", 1, FALSE, "g", "INFO"),
                    ModelSpec("b", 2, TRUE, "g", "INFO"),
                    ModelSpec("c", 3, TRUE, "g", "INFO") >>,
      max_loaded |-> 2, idle_unload_trigger_min |-> 1],
     [models |-> << ModelSpec("c", 3, TRUE, "g", "INFO"),
                    ModelSpec("b", 2, TRUE, "g", "INFO"),
                    ModelSpec("a", 1, FALSE, "g", "INFO") >>,
      max_loaded |-> 2, idle_unload_trigger_min |-> 0],
     [models |-> << ModelSpec("a", 1, FALSE, "g", "INFO"),
                    ModelSpec("b", 2, TRUE, "g", "INFO"),
                    ModelSpec("c", 3, TRUE, "g", "INFO") >>,
      max_loaded |-> 1, idle_unload_trigger_min |-> 0],
     [models |-> << ModelSpec("a", 1, FALSE, "g", "INFO"),
                    ModelSpec("b", 2, TRUE, "g", "INFO"),
                    ModelSpec("c", 3, TRUE, NoGroup, "INFO") >>,
      max_loaded |-> 2, idle_unload_trigger_min |-> 1],
     [models |-> << ModelSpec("b", 2, TRUE, "g", "INFO"),
                    ModelSpec("c", 3, TRUE, "g", "INFO") >>,
      max_loaded |-> 1, idle_unload_trigger_min |-> 0],
     [models |-> << ModelSpec("a", 1, FALSE, "g", "INFO"),
                    ModelSpec("b", 2, FALSE, "g", "INFO"),
                    ModelSpec("c", 3, TRUE, "g", "INFO") >>,
      max_loaded |-> 2, idle_unload_trigger_min |-> 0] >>
ConfigIds == 1..Len(Configs)
\* the edits of hub.yaml between two loads: none, or one of the changes above
Edits(c) == IF c = 1 THEN {1, 2, 3, 6} ELSE IF c = 4 THEN {4, 5} ELSE {c}

RECURSIVE SeqNames(_)
SeqNames(ms) == IF ms = <<>> THEN <<>> ELSE <<Head(ms).name>> \o SeqNames(Tail(ms))

Range(s) == {s[i] : i \in 1..Len(s)}

SpecOf(c, n) == CHOOSE m \in Range(Configs[c].models) : m.name = n

\* ------------------------------------------------------------------ state
VARIABLES
  hub_config,   \* index into Configs of the configuration in force
  table,        \* names of _model_state in dict order
  gen,          \* generation of the objects in _model_state
  objs,         \* ObjIds -> ModelProcessState (or Absent)
  procs,        \* sequence of child processes, pid = index
  lock,         \* holder of _lock, or Free
  th,           \* per thread: position and local variables
  now,          \* time.time(), in seconds
  ops,          \* requests served so far
  phase,        \* of the daemon's main thread: "boot", "serve", "final"
  should_exit,  \* _should_exit
  stop_event,   \* _stop_event is set
  server_exit,  \* server.should_exit of the attached server
  server,       \* a server is attached (self.server is not None)
  last,         \* history: per model name, how the last request step on it ended
  restart,      \* history: per model name, the start_timestamp of the child
                \* that the running reload_config stopped for a changed spec
  raised,       \* history: the error the last request raised on entry
  reply,        \* history: the HTTP response to the last request answered
  cli,          \* the CLI process running the status command (main.py)
  stopcall      \* one _stop_process call followed wait by wait

vars == <<hub_config, table, gen, objs, procs, lock, th, now, ops, phase,
          should_exit, stop_event, server_exit, server, last, restart, raised,
          reply, cli, stopcall>>
hvars == <<last, restart, raised, reply>>
\* the state of the daemon
dvars == <<hub_config, table, gen, objs, procs, lock, th, now, ops, phase,
           should_exit, stop_event, server_exit, server, hvars>>

Absent == [exists |-> FALSE]

\* mutant of NewState: every new state starts as stopped
NewState_Stopped(c, n) ==
  LET m == SpecOf(c, n) IN
  [exists |-> TRUE, config |-> m,
   status |-> "stopped",
   process |-> NoPid, return_code |-> NoCode, last_error |-> NoErr,
   start_timestamp |-> NoTime, last_active |-> NoTime]

\* ModelProcessState(...) as built at construction and by reload_config
NewState(c, n) ==
  LET m == SpecOf(c, n) IN
  [exists |-> TRUE, config |-> m,
   status |-> IF m.jit_enabled THEN "configured" ELSE "stopped",
   process |-> NoPid, return_code |-> NoCode, last_error |-> NoErr,
   start_timestamp |-> NoTime, last_active |-> NoTime]

\* what a status_payload in progress has read so far: nothing yet
NoView == [models |-> <<>>, config |-> 0]

\* route: the route of server.py the thread is serving, "boot" and "final"
\* for the two runtime calls of start_command, "none" otherwise
IdleThread == [pc |-> "idle", state |-> NoRef, evict |-> NoRef,
               process |-> NoPid, healthy |-> FALSE,
               queue |-> <<>>, stopq |-> <<>>, view |-> NoView,
               route |-> "none"]
OffThread == [IdleThread EXCEPT !.pc = "off"]

\* no status command is running
NoCli == [pc |-> "none", config |-> 0, client |-> FALSE, answer |-> "none",
          payload |-> 0, out |-> <<>>, exit_code |-> NoCode]

\* no _stop_process call is followed on its own
NoStopCall == [pc |-> "none", state |-> NoRef, kill |-> FALSE,
               process |-> NoPid, signals |-> <<>>]

\* Popen.poll() is None
Alive(p) == p # NoPid /\ procs[p].alive

\* ModelProcessState.is_running
is_running(s) == objs[s].process # NoPid /\ Alive(objs[s].process)

InTable(n) == n \in Range(table)
Entry(n) == <<n, gen>>

\* objects a thread still refers to
RefsOf(r) == {r.state, r.evict} \cup Range(r.stopq)
\* objects of an old generation that no thread refers to are unreachable
Collect(o, t2, g) ==
  [r \in ObjIds |->
     IF r[2] >= g \/ (\E t \in Threads : r \in RefsOf(t2[t])) THEN o[r] ELSE Absent]

\* --------------------------------------------------------- group policy
RECURSIVE FirstMin_Newest(_, _)
\* mutant of FirstMin: the comparison reversed, the newest peer is picked
FirstMin_Newest(o, refs) ==
  IF Len(refs) = 1 THEN refs[1]
  ELSE LET rest == FirstMin_Newest(o, Tail(refs))
           age(r) == IF o[r].start_timestamp = NoTime THEN 0 ELSE o[r].start_timestamp
       IN IF age(refs[1]) >= age(rest) THEN refs[1] ELSE rest

RECURSIVE FirstMin(_, _)
\* min(running, key=_age): the first element with the least age
FirstMin(o, refs) ==
  IF Len(refs) = 1 THEN refs[1]
  ELSE LET rest == FirstMin(o, Tail(refs))
           age(r) == IF o[r].start_timestamp = NoTime THEN 0 ELSE o[r].start_timestamp
       IN IF age(refs[1]) <= age(rest) THEN refs[1] ELSE rest

RECURSIVE RunningPeers(_, _)
\* the running list of _pick_eviction_candidate, in table order
RunningPeers(target, ns) ==
  IF ns = <<>> THEN <<>>
  ELSE LET s == Entry(Head(ns))
           rest == RunningPeers(target, Tail(ns))
       IN IF /\ objs[s].config.group = objs[target].config.group
             /\ is_running(s)
             /\ objs[s].config.name # objs[target].config.name
          THEN <<s>> \o rest ELSE rest

_pick_eviction_candidate(target) ==
  IF objs[target].config.group = NoGroup THEN NoRef
  ELSE IF Configs[hub_config].max_loaded = 0 THEN NoRef
  ELSE LET running == RunningPeers(target, table) IN
       IF Len(running) < Configs[hub_config].max_loaded THEN NoRef
       ELSE FirstMin(objs, running)

\* ------------------------------------------------------- _stop_process
\* mutant of StopNoHandle: the status is left as it was
StopNoHandle_KeepStatus(o, s) ==
  [o EXCEPT ![s].return_code = NoCode, ![s].last_active = now]

\* the branch for a state without a handle
StopNoHandle(o, s) ==
  [o EXCEPT ![s].status = "stopped", ![s].return_code = NoCode,
            ![s].last_active = now]

\* status = "stopping" and terminate()/kill() sent
StopSignal(o, s) == [o EXCEPT ![s].status = "stopping"]

\* after the wait: record the exit code rc of the captured process
StopFinish(o, s, rc) ==
  [o EXCEPT ![s].return_code = rc, ![s].process = NoPid,
            ![s].last_active = now,
            ![s].status = IF rc \notin {NoCode, 0} THEN "failed" ELSE "stopped",
            ![s].last_error = IF rc \notin {NoCode, 0} /\ o[s].last_error = NoErr
                              THEN "exited" ELSE o[s].last_error]

\* the exit codes process.returncode can hold once the waits are over
WaitCodes(p, kill) ==
  IF procs[p].alive THEN (IF kill THEN {SIGKILL} ELSE TermCodes)
  ELSE {procs[p].rc}

Exited(ps, p, rc) == [ps EXCEPT ![p].alive = FALSE, ![p].rc = rc]

\* the whole of _stop_process as one step, for callers that hold the lock
\* and stop several states in one critical section
StopNow(o, s, rc) ==
  IF o[s].process = NoPid THEN StopNoHandle(o, s)
  ELSE StopFinish(StopSignal(o, s), s, rc)

\* ------------------------------------------------------------ threads
Upd(t, r) == [th EXCEPT ![t] = r]

RECURSIVE SkipUnknown(_, _)
\* start_initial_models logs the "Unknown model" error and goes on
SkipUnknown(q, tbl) ==
  IF q = <<>> THEN <<>>
  ELSE IF Head(q) \in Range(tbl) THEN q ELSE SkipUnknown(Tail(q), tbl)

\* The thread after a start_model call ended: the next start_model of the
\* start_initial_models loop, up to its _get_model_state, or idle.
Continue(q, tbl, g) ==
  LET q2 == SkipUnknown(q, tbl) IN
  IF q2 = <<>> THEN IdleThread
  ELSE [IdleThread EXCEPT !.pc = "sm_enter", !.state = <<Head(q2), g>>,
                          !.queue = Tail(q2)]

\* the thread after one _stop_process of stop_model / stop_all_models
AfterStop(r) ==
  IF Len(r.stopq) <= 1 THEN IdleThread
  ELSE [r EXCEPT !.pc = "st_lock", !.stopq = Tail(r.stopq), !.process = NoPid]

\* The server takes a request on thread t: the daemon is serving and has
\* not been told to exit (main.py:224-226)
Accepting(t) == th[t].pc = "idle" /\ phase = "serve" /\ ~server_exit

\* a thread at work keeps the route it serves
Routed(r, rt) == IF r.pc = "idle" THEN r ELSE [r EXCEPT !.route = rt]

\* the routes that call the runtime inside try/except HubRuntimeError
Routes == {"start", "stop", "stop_all", "reload", "shutdown"}

\* mutant of HTTPAnswer: the HubRuntimeError is swallowed by the route
HTTPAnswer_Swallowed(rt, exc) == [route |-> rt, status_code |-> 200, detail |-> "ok"]

\* what a route answers when its runtime call raised HubRuntimeError(exc),
\* or returned (NoErr): HTTPException(status_code=400, detail=str(exc)), or
\* the value returned, sent with 200
HTTPAnswer(rt, exc) ==
  [route |-> rt, status_code |-> IF exc # NoErr THEN 400 ELSE 200,
   detail |-> IF exc # NoErr THEN exc ELSE "ok"]

\* the HubRuntimeError of a start_model that leaves the runtime call of route
\* rt: start_initial_models logs it and goes on (617-620)
Uncaught(rt, exc) == IF rt = "start" THEN exc ELSE NoErr

\* the last answer after a step of thread t serving route rt, in which exc
\* was raised: the route answers once its runtime call has ended
Respond(t, rt, exc) ==
  IF rt \in Routes /\ th'[t].pc = "idle" THEN HTTPAnswer(rt, Uncaught(rt, exc))
  ELSE reply

\* --------------------------------------------------------- start_model
\* start_model(n) / load_model(n) is called: _get_model_state
BeginStart(t, n) ==
  /\ Accepting(t) /\ ops < MaxOps
  /\ ops' = ops + 1
  /\ th' = Upd(t, Routed(Continue(<<n>>, table, gen), "start"))
  /\ objs' = Collect(objs, th', gen)
  /\ raised' = IF InTable(n) THEN NoErr ELSE "unknown_model"
  /\ reply' = Respond(t, "start", raised')
  /\ UNCHANGED <<server, cli, stopcall, hub_config, table, gen, procs, lock, now, phase,
                 should_exit, stop_event, server_exit, last, restart>>

\* mutant of SM_enter: a running target is started again like a stopped one
SM_enter_Again(t) ==
  /\ th[t].pc = "sm_enter" /\ lock = Free
  /\ LET s == th[t].state
         ev == _pick_eviction_candidate(s)
     IN /\ th' = Upd(t, [th[t] EXCEPT !.evict = ev,
                           !.pc = IF ev # NoRef THEN "sm_evict" ELSE "sm_spawn"])
        /\ objs' = [objs EXCEPT ![s].status = "starting",
                                ![s].last_error = NoErr,
                                ![s].return_code = NoCode]
  /\ UNCHANGED <<server, cli, stopcall, hub_config, table, gen, procs, lock, now, ops, phase,
                 should_exit, stop_event, server_exit>>
  /\ last' = [last EXCEPT ![th[t].state[1]] = "none"]
  /\ restart' = restart /\ raised' = raised /\ reply' = reply

\* the first critical section of start_model (runtime.py:223-240)
SM_enter(t) ==
  /\ th[t].pc = "sm_enter" /\ lock = Free
  /\ LET s == th[t].state
         ev == _pick_eviction_candidate(s)
     IN IF is_running(s)
        THEN /\ th' = Upd(t, Routed(Continue(th[t].queue, table, gen), th[t].route))
             /\ objs' = Collect([objs EXCEPT ![s].status = "running",
                                             ![s].last_error = NoErr,
                                             ![s].last_active = now], th', gen)
        ELSE /\ th' = Upd(t, [th[t] EXCEPT !.evict = ev,
                                !.pc = IF ev # NoRef THEN "sm_evict" ELSE "sm_spawn"])
             /\ objs' = [objs EXCEPT ![s].status = "starting",
                                     ![s].last_error = NoErr,
                                     ![s].return_code = NoCode]
  /\ UNCHANGED <<server, cli, stopcall, hub_config, table, gen, procs, lock, now, ops, phase,
                 should_exit, stop_event, server_exit>>
  /\ last' = [last EXCEPT ![th[t].state[1]] =
                 IF is_running(th[t].state) THEN "already" ELSE "none"]
  /\ restart' = restart /\ raised' = raised
  /\ reply' = Respond(t, th[t].route, NoErr)

\* _stop_process(eviction_target, kill=False) up to terminate(); the lock
\* is not held (runtime.py:252, 540-552)
SM_evict(t) ==
  /\ th[t].pc = "sm_evict"
  /\ LET e == th[t].evict IN
     IF objs[e].process = NoPid
     THEN /\ objs' = StopNoHandle(objs, e)
          /\ th' = Upd(t, [th[t] EXCEPT !.pc = "sm_spawn"])
     ELSE /\ objs' = StopSignal(objs, e)
          /\ th' = Upd(t, [th[t] EXCEPT !.pc = "sm_evict_wait",
                                        !.process = objs[e].process])
  /\ UNCHANGED <<server, cli, stopcall, hub_config, table, gen, procs, lock, now, ops, phase,
                 should_exit, stop_event, server_exit>>
  /\ last' = [last EXCEPT ![th[t].evict[1]] =
                 IF objs[th[t].evict].process = NoPid THEN "evicted" ELSE "none"]
  /\ restart' = [restart EXCEPT ![th[t].evict[1]] = NoTime]
  /\ raised' = raised /\ reply' = reply

\* the rest of that _stop_process, once the waits are over (554-570)
SM_evict_wait(t) ==
  /\ th[t].pc = "sm_evict_wait"
  /\ \E rc \in WaitCodes(th[t].process, FALSE) :
       /\ procs' = Exited(procs, th[t].process, rc)
       /\ objs' = StopFinish(objs, th[t].evict, rc)
  /\ th' = Upd(t, [th[t] EXCEPT !.pc = "sm_spawn", !.process = NoPid])
  /\ UNCHANGED <<server, cli, stopcall, hub_config, table, gen, lock, now, ops, phase,
                 should_exit, stop_event, server_exit>>
  /\ last' = [last EXCEPT ![th[t].evict[1]] = "evicted"]
  /\ restart' = restart /\ raised' = raised /\ reply' = reply

\* subprocess.Popen succeeds (254-264); launching a process takes time
SM_spawn(t) ==
  /\ th[t].pc = "sm_spawn"
  /\ procs' = Append(procs, [name |-> objs[th[t].state].config.name,
                             alive |-> TRUE, rc |-> NoCode, own |-> FALSE,
                             h200 |-> FALSE])
  /\ now' = now + 1
  /\ th' = Upd(t, [th[t] EXCEPT !.pc = "sm_install", !.process = Len(procs) + 1])
  /\ UNCHANGED <<server, cli, stopcall, hub_config, table, gen, objs, lock, ops, phase,
                 should_exit, stop_event, server_exit, hvars>>

\* mutant of SM_spawn_failed: the error ends the loop of start_initial_models
SM_spawn_failed_Aborts(t) ==
  /\ th[t].pc = "sm_spawn" /\ lock = Free
  /\ th' = Upd(t, IdleThread)
  /\ objs' = Collect([objs EXCEPT ![th[t].state].status = "failed",
                                  ![th[t].state].last_error = "oserror"], th', gen)
  /\ UNCHANGED <<server, cli, stopcall, hub_config, table, gen, procs, lock, now, ops, phase,
                 should_exit, stop_event, server_exit>>
  /\ last' = [last EXCEPT ![th[t].state[1]] = "spawn_failed"]
  /\ restart' = [restart EXCEPT ![th[t].state[1]] = NoTime]
  /\ raised' = raised
  /\ reply' = Respond(t, th[t].route, "spawn_failed")

\* subprocess.Popen raises OSError (265-269)
SM_spawn_failed(t) ==
  /\ th[t].pc = "sm_spawn" /\ lock = Free
  /\ th' = Upd(t, Routed(Continue(th[t].queue, table, gen), th[t].route))
  /\ objs' = Collect([objs EXCEPT ![th[t].state].status = "failed",
                                  ![th[t].state].last_error = "oserror"], th', gen)
  /\ UNCHANGED <<server, cli, stopcall, hub_config, table, gen, procs, lock, now, ops, phase,
                 should_exit, stop_event, server_exit>>
  /\ last' = [last EXCEPT ![th[t].state[1]] = "spawn_failed"]
  /\ restart' = [restart EXCEPT ![th[t].state[1]] = NoTime]
  /\ raised' = raised
  /\ reply' = Respond(t, th[t].route, "spawn_failed")

\* the handle is installed (271-275)
SM_install(t) ==
  /\ th[t].pc = "sm_install" /\ lock = Free
  /\ objs' = [objs EXCEPT ![th[t].state].process = th[t].process,
                          ![th[t].state].start_timestamp = now,
                          ![th[t].state].last_active = now,
                          ![th[t].state].return_code = NoCode]
  /\ th' = Upd(t, [th[t] EXCEPT !.pc = "sm_health", !.process = NoPid])
  /\ UNCHANGED <<server, cli, stopcall, hub_config, table, gen, procs, lock, now, ops, phase,
                 should_exit, stop_event, server_exit>>
  /\ last' = [last EXCEPT ![th[t].state[1]] = "none"]
  /\ restart' = restart /\ raised' = raised /\ reply' = reply

\* _wait_for_health: GET /health is answered 200 by the child (526-529)
SM_health_200(t) ==
  /\ th[t].pc = "sm_health"
  /\ is_running(th[t].state)
  /\ procs' = [procs EXCEPT ![objs[th[t].state].process].h200 = TRUE]
  /\ th' = Upd(t, [th[t] EXCEPT !.pc = "sm_finish", !.healthy = TRUE])
  /\ UNCHANGED <<server, cli, stopcall, hub_config, table, gen, objs, lock, now, ops, phase,
                 should_exit, stop_event, server_exit, hvars>>

\* _wait_for_health: the state is found not running (523-524)
SM_health_exited(t) ==
  /\ th[t].pc = "sm_health"
  /\ ~is_running(th[t].state)
  /\ th' = Upd(t, [th[t] EXCEPT !.pc = "sm_finish", !.healthy = FALSE])
  /\ UNCHANGED <<server, cli, stopcall, hub_config, table, gen, objs, procs, lock, now, ops, phase,
                 should_exit, stop_event, server_exit, hvars>>

\* _wait_for_health: the deadline passes without a 200 (522, 535)
SM_health_deadline(t) ==
  /\ th[t].pc = "sm_health"
  /\ th' = Upd(t, [th[t] EXCEPT !.pc = "sm_finish",
                                !.healthy = is_running(th[t].state)])
  /\ UNCHANGED <<server, cli, stopcall, hub_config, table, gen, objs, procs, lock, now, ops, phase,
                 should_exit, stop_event, server_exit, hvars>>

\* mutant of SM_finish: after a failed health wait the wait is begun again
SM_finish_Retries(t) ==
  /\ th[t].pc = "sm_finish" /\ lock = Free
  /\ LET s == th[t].state IN
     IF th[t].healthy
     THEN /\ th' = Upd(t, Routed(Continue(th[t].queue, table, gen), th[t].route))
          /\ objs' = Collect([objs EXCEPT ![s].status = "running",
                                          ![s].last_error = NoErr,
                                          ![s].last_active = now], th', gen)
          /\ procs' = procs
     ELSE /\ th' = Upd(t, [th[t] EXCEPT !.pc = "sm_health"])
          /\ objs' = [objs EXCEPT ![s].status = "failed",
                                  ![s].last_error = "health"]
          /\ procs' = procs
  /\ UNCHANGED <<server, cli, stopcall, hub_config, table, gen, lock, now, ops, phase,
                 should_exit, stop_event, server_exit>>
  /\ last' = [last EXCEPT ![th[t].state[1]] =
                 IF th[t].healthy THEN "started" ELSE "none"]
  /\ restart' = restart /\ raised' = raised
  /\ reply' = Respond(t, th[t].route, NoErr)

\* the last critical section of start_model (279-296)
SM_finish(t) ==
  /\ th[t].pc = "sm_finish" /\ lock = Free
  /\ LET s == th[t].state IN
     IF th[t].healthy
     THEN /\ th' = Upd(t, Routed(Continue(th[t].queue, table, gen), th[t].route))
          /\ objs' = Collect([objs EXCEPT ![s].status = "running",
                                          ![s].last_error = NoErr,
                                          ![s].last_active = now], th', gen)
          /\ procs' = procs
     ELSE /\ th' = Upd(t, Routed(Continue(th[t].queue, table, gen), th[t].route))
          /\ LET o1 == [objs EXCEPT ![s].status = "failed",
                                    ![s].last_error = "health"]
                 p == objs[s].process
             IN \E rc \in (IF p = NoPid THEN {NoCode} ELSE WaitCodes(p, TRUE)) :
                  /\ procs' = IF p = NoPid THEN procs ELSE Exited(procs, p, rc)
                  /\ objs' = Collect([StopNow(o1, s, rc) EXCEPT ![s].status = "failed"],
                                     th', gen)
  /\ UNCHANGED <<server, cli, stopcall, hub_config, table, gen, lock, now, ops, phase,
                 should_exit, stop_event, server_exit>>
  /\ last' = [last EXCEPT ![th[t].state[1]] =
                 IF th[t].healthy THEN "started" ELSE "health_failed"]
  /\ restart' = restart /\ raised' = raised
  /\ reply' = Respond(t, th[t].route,
                      IF th[t].healthy THEN NoErr ELSE "health_failed")

\* ---------------------------------------- stop_model, stop_all_models
\* mutant of BeginStop: the name is not looked up before the stop
BeginStop_NoLookup(t, n) ==
  /\ Accepting(t) /\ ops < MaxOps
  /\ ops' = ops + 1
  /\ th' = Upd(t, [IdleThread EXCEPT !.pc = "st_lock", !.stopq = <<Entry(n)>>,
                                      !.route = "stop"])
  /\ raised' = IF InTable(n) THEN NoErr ELSE "unknown_model"
  /\ reply' = Respond(t, "stop", NoErr)
  /\ UNCHANGED <<server, cli, stopcall, hub_config, table, gen, objs, procs, lock, now, phase,
                 should_exit, stop_event, server_exit, last, restart>>

\* stop_model(n) / unload_model(n) is called: _get_model_state
BeginStop(t, n) ==
  /\ Accepting(t) /\ ops < MaxOps
  /\ ops' = ops + 1
  /\ th' = Upd(t, IF InTable(n)
                  THEN [IdleThread EXCEPT !.pc = "st_lock", !.stopq = <<Entry(n)>>,
                                          !.route = "stop"]
                  ELSE IdleThread)
  /\ raised' = IF InTable(n) THEN NoErr ELSE "unknown_model"
  /\ reply' = IF InTable(n) THEN reply ELSE HTTPAnswer("stop", raised')
  /\ UNCHANGED <<server, cli, stopcall, hub_config, table, gen, objs, procs, lock, now, phase,
                 should_exit, stop_event, server_exit, last, restart>>

\* stop_all_models is called: list(self._model_state.values())
BeginStopAll(t) ==
  /\ Accepting(t) /\ ops < MaxOps
  /\ ops' = ops + 1
  /\ th' = Upd(t, IF table = <<>> THEN IdleThread
                  ELSE [IdleThread EXCEPT !.pc = "st_lock", !.route = "stop_all",
                          !.stopq = [i \in 1..Len(table) |-> Entry(table[i])]])
  /\ raised' = NoErr
  /\ reply' = Respond(t, "stop_all", NoErr)
  /\ UNCHANGED <<server, cli, stopcall, hub_config, table, gen, objs, procs, lock, now, phase,
                 should_exit, stop_event, server_exit, last, restart>>

\* history: one more stop in a row
Stopped(l) == IF l \in {"stop1", "stop2"} THEN "stop2" ELSE "stop1"

\* with self._lock: _stop_process(state, kill=False), up to terminate()
ST_signal(t) ==
  /\ th[t].pc = "st_lock" /\ lock = Free
  /\ LET s == Head(th[t].stopq) IN
     IF objs[s].process = NoPid
     THEN /\ th' = Upd(t, AfterStop(th[t]))
          /\ objs' = Collect(StopNoHandle(objs, s), th', gen)
          /\ lock' = Free
     ELSE /\ objs' = StopSignal(objs, s)
          /\ th' = Upd(t, [th[t] EXCEPT !.pc = "st_wait", !.process = objs[s].process])
          /\ lock' = t
  /\ UNCHANGED <<server, cli, stopcall, hub_config, table, gen, procs, now, ops, phase,
                 should_exit, stop_event, server_exit>>
  /\ last' = IF objs[Head(th[t].stopq)].process = NoPid
             THEN [last EXCEPT ![Head(th[t].stopq)[1]] = Stopped(@)]
             ELSE last
  /\ restart' = [restart EXCEPT ![Head(th[t].stopq)[1]] = NoTime]
  /\ raised' = raised
  /\ reply' = Respond(t, th[t].route, NoErr)

\* mutant of ST_finish: the lock is kept on leaving the with block
ST_finish_KeepsLock(t) ==
  /\ th[t].pc = "st_wait" /\ lock = t
  /\ th' = Upd(t, AfterStop(th[t]))
  /\ \E rc \in WaitCodes(th[t].process, FALSE) :
       /\ procs' = Exited(procs, th[t].process, rc)
       /\ objs' = Collect(StopFinish(objs, Head(th[t].stopq), rc), th', gen)
  /\ lock' = lock
  /\ UNCHANGED <<server, cli, stopcall, hub_config, table, gen, now, ops, phase,
                 should_exit, stop_event, server_exit>>
  /\ last' = [last EXCEPT ![Head(th[t].stopq)[1]] = Stopped(@)]
  /\ restart' = restart /\ raised' = raised
  /\ reply' = Respond(t, th[t].route, NoErr)

\* the waits are over; the lock is released on leaving the with block
ST_finish(t) ==
  /\ th[t].pc = "st_wait" /\ lock = t
  /\ th' = Upd(t, AfterStop(th[t]))
  /\ \E rc \in WaitCodes(th[t].process, FALSE) :
       /\ procs' = Exited(procs, th[t].process, rc)
       /\ objs' = Collect(StopFinish(objs, Head(th[t].stopq), rc), th', gen)
  /\ lock' = Free
  /\ UNCHANGED <<server, cli, stopcall, hub_config, table, gen, now, ops, phase,
                 should_exit, stop_event, server_exit>>
  /\ last' = [last EXCEPT ![Head(th[t].stopq)[1]] = Stopped(@)]
  /\ restart' = restart /\ raised' = raised
  /\ reply' = Respond(t, th[t].route, NoErr)

\* ------------------------------------------------------- environment
\* a child process ends on its own
ChildExit(p) ==
  /\ procs[p].alive
  /\ Cardinality({q \in DOMAIN procs : procs[q].own}) < MaxExits
  /\ \E rc \in OwnExitCodes : procs' = [Exited(procs, p, rc) EXCEPT ![p].own = TRUE]
  /\ UNCHANGED <<server, cli, stopcall, hub_config, table, gen, objs, lock, th, now, ops, phase,
                 should_exit, stop_event, server_exit, hvars>>

\* a minute passes
Tick ==
  /\ now < MaxTicks * SecondsPerMinute
  /\ now' = now + SecondsPerMinute
  /\ UNCHANGED <<server, cli, stopcall, hub_config, table, gen, objs, procs, lock, th, ops, phase,
                 should_exit, stop_event, server_exit, hvars>>

\* ------------------------------------------------------- reload_config
\* mutant of _config_matches: "port" missing from the keys
_config_matches_NoPort(lhs, rhs) == lhs.jit_enabled = rhs.jit_enabled

\* _config_matches: the keys it compares, among the fields kept here
_config_matches(lhs, rhs) ==
  lhs.port = rhs.port /\ lhs.jit_enabled = rhs.jit_enabled

RECURSIVE NonJit(_)
\* the names start_initial_models calls start_model for, in table order
NonJit(ms) ==
  IF ms = <<>> THEN <<>>
  ELSE IF Head(ms).jit_enabled THEN NonJit(Tail(ms))
       ELSE <<Head(ms).name>> \o NonJit(Tail(ms))

\* reload_config keeps the process of this table entry (runtime.py:156-160)
Keeps(c, n) ==
  /\ n \in Range(SeqNames(Configs[c].models))
  /\ _config_matches(objs[Entry(n)].config, SpecOf(c, n))
  /\ objs[Entry(n)].process # NoPid

\* mutant of ReloadedState: start_timestamp is not carried over
ReloadedState_NoTimestamp(c, n) ==
  IF InTable(n) /\ Keeps(c, n)
  THEN [NewState(c, n) EXCEPT !.process = objs[Entry(n)].process,
                              !.status = objs[Entry(n)].status,
                              !.last_error = objs[Entry(n)].last_error,
                              !.last_active = objs[Entry(n)].last_active]
  ELSE NewState(c, n)

\* the new ModelProcessState of reload_config for model n (146-165)
ReloadedState(c, n) ==
  IF InTable(n) /\ Keeps(c, n)
  THEN [NewState(c, n) EXCEPT !.process = objs[Entry(n)].process,
                              !.status = objs[Entry(n)].status,
                              !.last_error = objs[Entry(n)].last_error,
                              !.start_timestamp = objs[Entry(n)].start_timestamp,
                              !.last_active = objs[Entry(n)].last_active]
  ELSE NewState(c, n)

\* exit codes the stops of one critical section end with, per model name
StopCodes(ns) ==
  {f \in [ns -> TermCodes \cup OwnExitCodes \cup {NoCode}] :
     \A n \in ns : f[n] \in (IF objs[Entry(n)].process = NoPid THEN {NoCode}
                             ELSE WaitCodes(objs[Entry(n)].process, FALSE))}

\* the table entries ns stopped with _stop_process(state, kill=False)
StopAllOf(o, ns, rcs) ==
  [r \in ObjIds |-> IF r[2] = gen /\ r[1] \in ns THEN StopNow(o, r, rcs[r[1]])[r]
                    ELSE o[r]]
ExitedAllOf(ns, rcs) ==
  [p \in DOMAIN procs |->
     IF \E n \in ns : objs[Entry(n)].process = p
     THEN [procs[p] EXCEPT !.alive = FALSE,
             !.rc = rcs[CHOOSE n \in ns : objs[Entry(n)].process = p]]
     ELSE procs[p]]

\* reload_config with the configuration file now holding Configs[c]
ReloadConfig(t, c) ==
  /\ Accepting(t) /\ lock = Free /\ ops < MaxOps
  /\ ops' = ops + 1
  /\ LET newnames == SeqNames(Configs[c].models)
         stopped == {n \in Range(table) : ~Keeps(c, n)}
     IN /\ table' = newnames
        /\ gen' = gen + 1
        /\ hub_config' = c
        /\ th' = Upd(t, Routed(Continue(NonJit(Configs[c].models), table', gen'),
                               "reload"))
        /\ \E rcs \in StopCodes(stopped) :
             /\ procs' = ExitedAllOf(stopped, rcs)
             /\ objs' = Collect(
                  [r \in ObjIds |->
                     IF r[2] = gen + 1
                     THEN (IF r[1] \in Range(newnames) THEN ReloadedState(c, r[1])
                           ELSE Absent)
                     ELSE StopAllOf(objs, stopped, rcs)[r]], th', gen')
  /\ last' = [n \in Names |-> "none"]
  /\ restart' = [n \in Names |->
                  IF /\ InTable(n) /\ n \in Range(SeqNames(Configs[c].models))
                     /\ is_running(Entry(n)) /\ objs[Entry(n)].status = "running"
                     /\ ~objs[Entry(n)].config.jit_enabled
                     /\ objs[Entry(n)].config.port # SpecOf(c, n).port
                  THEN objs[Entry(n)].start_timestamp ELSE NoTime]
  /\ raised' = NoErr
  /\ reply' = Respond(t, "reload", NoErr)
  /\ UNCHANGED <<server, cli, stopcall, lock, now, phase, should_exit, stop_event,
                 server_exit>>

\* mutant of ReloadFailed: the statuses are reset before the file is loaded
ReloadFailed_ResetsStatus(t) ==
  /\ Accepting(t) /\ ops < MaxOps
  /\ ops' = ops + 1
  /\ raised' = "reload_failed"
  /\ reply' = HTTPAnswer("reload", raised')
  /\ objs' = [r \in ObjIds |->
               IF r[2] = gen /\ r[1] \in Range(table)
               THEN [objs[r] EXCEPT !.status = "stopped"] ELSE objs[r]]
  /\ UNCHANGED <<server, cli, stopcall, hub_config, table, gen, procs, lock, th, now, phase,
                 should_exit, stop_event, server_exit, last, restart>>

\* load_hub_config raises HubConfigError: reload_config raises (126-129)
ReloadFailed(t) ==
  /\ Accepting(t) /\ ops < MaxOps
  /\ ops' = ops + 1
  /\ raised' = "reload_failed"
  /\ reply' = HTTPAnswer("reload", raised')
  /\ UNCHANGED <<server, cli, stopcall, hub_config, table, gen, objs, procs, lock, th, now, phase,
                 should_exit, stop_event, server_exit, last, restart>>

\* ------------------------------------- _refresh_process_states (reap)
\* mutant of RefreshOne: a model whose child failed is marked for a restart
RefreshOne_Restarts(st) ==
  IF st.process = NoPid
  THEN (IF st.status \notin {"configured", "stopped"}
        THEN [st EXCEPT !.status = "stopped"] ELSE st)
  ELSE IF procs[st.process].alive THEN st
  ELSE LET rc == procs[st.process].rc IN
       [st EXCEPT !.return_code = rc, !.process = NoPid, !.last_active = now,
                  !.status = IF rc \notin {NoCode, 0} THEN "starting" ELSE "stopped",
                  !.last_error = IF rc \notin {NoCode, 0}
                                 THEN (IF st.last_error = NoErr THEN "exited"
                                       ELSE st.last_error)
                                 ELSE (IF st.last_error = "exited" THEN NoErr
                                       ELSE st.last_error)]

\* mutant of RefreshOne: the exit code found by poll() is not recorded
RefreshOne_NoReturnCode(st) ==
  IF st.process = NoPid
  THEN (IF st.status \notin {"configured", "stopped"}
        THEN [st EXCEPT !.status = "stopped"] ELSE st)
  ELSE IF procs[st.process].alive THEN st
  ELSE LET rc == procs[st.process].rc IN
       [st EXCEPT !.process = NoPid, !.last_active = now,
                  !.status = IF rc \notin {NoCode, 0} THEN "failed" ELSE "stopped",
                  !.last_error = IF rc \notin {NoCode, 0}
                                 THEN (IF st.last_error = NoErr THEN "exited"
                                       ELSE st.last_error)
                                 ELSE (IF st.last_error = "exited" THEN NoErr
                                       ELSE st.last_error)]

\* mutant of RefreshOne: a state whose child is alive is marked active
RefreshOne_Touches(st) ==
  IF st.process = NoPid
  THEN (IF st.status \notin {"configured", "stopped"}
        THEN [st EXCEPT !.status = "stopped"] ELSE st)
  ELSE IF procs[st.process].alive THEN [st EXCEPT !.last_active = now]
  ELSE LET rc == procs[st.process].rc IN
       [st EXCEPT !.return_code = rc, !.process = NoPid, !.last_active = now,
                  !.status = IF rc \notin {NoCode, 0} THEN "failed" ELSE "stopped",
                  !.last_error = IF rc \notin {NoCode, 0}
                                 THEN (IF st.last_error = NoErr THEN "exited"
                                       ELSE st.last_error)
                                 ELSE (IF st.last_error = "exited" THEN NoErr
                                       ELSE st.last_error)]

\* mutant of RefreshOne: a state without handle is left as it is
RefreshOne_KeepsStatus(st) ==
  IF st.process = NoPid THEN st
  ELSE IF procs[st.process].alive THEN st
  ELSE LET rc == procs[st.process].rc IN
       [st EXCEPT !.return_code = rc, !.process = NoPid, !.last_active = now,
                  !.status = IF rc \notin {NoCode, 0} THEN "failed" ELSE "stopped",
                  !.last_error = IF rc \notin {NoCode, 0}
                                 THEN (IF st.last_error = NoErr THEN "exited"
                                       ELSE st.last_error)
                                 ELSE (IF st.last_error = "exited" THEN NoErr
                                       ELSE st.last_error)]

RefreshOne(st) ==
  IF st.process = NoPid
  THEN (IF st.status \notin {"configured", "stopped"}
        THEN [st EXCEPT !.status = "stopped"] ELSE st)
  ELSE IF procs[st.process].alive THEN st
  ELSE LET rc == procs[st.process].rc IN
       [st EXCEPT !.return_code = rc, !.process = NoPid, !.last_active = now,
                  !.status = IF rc \notin {NoCode, 0} THEN "failed" ELSE "stopped",
                  !.last_error = IF rc \notin {NoCode, 0}
                                 THEN (IF st.last_error = NoErr THEN "exited"
                                       ELSE st.last_error)
                                 ELSE (IF st.last_error = "exited" THEN NoErr
                                       ELSE st.last_error)]

_refresh_process_states(o) ==
  [r \in ObjIds |-> IF r[2] = gen /\ r[1] \in Range(table) THEN RefreshOne(o[r])
                    ELSE o[r]]

\* "started_at" and "uptime_seconds" of a model in the payload (198-202);
\* NoTime and NoUptime stand for null
NoUptime == -1
started_at(st) == st.start_timestamp
uptime_seconds(st) ==
  IF st.start_timestamp # NoTime THEN now - st.start_timestamp ELSE NoUptime

\* status_payload: the reap pass (185) and the list of the models, read
\* from _model_state without the lock (187-206)
StatusPayload(t) ==
  /\ Accepting(t) /\ lock = Free
  /\ objs' = _refresh_process_states(objs)
  /\ th' = Upd(t, [IdleThread EXCEPT !.pc = "sp_settings",
                     !.view = [models |-> table, config |-> hub_config]])
  /\ UNCHANGED <<server, cli, stopcall, hub_config, table, gen, procs, lock, now, ops, phase,
                 should_exit, stop_event, server_exit, hvars>>

\* status_payload: the hub settings and the group summaries, read from
\* hub_config and _model_state without the lock (208-217, 363-379); the
\* payload is returned
StatusSettings(t) ==
  /\ th[t].pc = "sp_settings"
  /\ th' = Upd(t, IdleThread)
  /\ UNCHANGED <<server, cli, stopcall, hub_config, table, gen, objs, procs, lock, now, ops, phase,
                 should_exit, stop_event, server_exit, hvars>>

\* ------------------------------------------------------- monitor thread
\* _monitor_loop wakes up with the stop event clear: the reap pass (333-334)
MonitorRefresh ==
  /\ th[Monitor].pc = "idle" /\ ~stop_event /\ lock = Free
  /\ objs' = _refresh_process_states(objs)
  /\ th' = Upd(Monitor, [IdleThread EXCEPT !.pc = "mon_idle"])
  /\ UNCHANGED <<server, cli, stopcall, hub_config, table, gen, procs, lock, now, ops, phase,
                 should_exit, stop_event, server_exit, hvars>>

\* mutant of IdleExpired: the idle time must exceed the trigger
IdleExpired_Strict(n) ==
  LET st == objs[Entry(n)]
      T == Configs[hub_config].idle_unload_trigger_min
      last_active == IF st.last_active # NoTime THEN st.last_active
                     ELSE IF st.start_timestamp # NoTime THEN st.start_timestamp
                     ELSE now
  IN /\ st.config.jit_enabled /\ is_running(Entry(n)) /\ st.config.group # NoGroup
     /\ T # 0
     /\ now - last_active > T * SecondsPerMinute

\* mutant of IdleExpired: the tests of jit_enabled and of the group are left out
IdleExpired_AnyModel(n) ==
  LET st == objs[Entry(n)]
      T == Configs[hub_config].idle_unload_trigger_min
      last_active == IF st.last_active # NoTime THEN st.last_active
                     ELSE IF st.start_timestamp # NoTime THEN st.start_timestamp
                     ELSE now
  IN /\ is_running(Entry(n))
     /\ T # 0
     /\ now - last_active >= T * SecondsPerMinute

\* the test of _enforce_idle_unload for one table entry (387-396)
IdleExpired(n) ==
  LET st == objs[Entry(n)]
      T == Configs[hub_config].idle_unload_trigger_min
      last_active == IF st.last_active # NoTime THEN st.last_active
                     ELSE IF st.start_timestamp # NoTime THEN st.start_timestamp
                     ELSE now
  IN /\ st.config.jit_enabled /\ is_running(Entry(n)) /\ st.config.group # NoGroup
     /\ T # 0
     /\ now - last_active >= T * SecondsPerMinute

RECURSIVE IdleNames(_)
\* the table entries, in table order, that pass the test
IdleNames(ns) ==
  IF ns = <<>> THEN <<>>
  ELSE IF IdleExpired(Head(ns)) THEN <<Head(ns)>> \o IdleNames(Tail(ns))
       ELSE IdleNames(Tail(ns))

\* the names that follow n in the table
After(n) ==
  {table[i] : i \in {k \in 1..Len(table) : \E j \in 1..(k - 1) : table[j] = n}}

\* _enforce_idle_unload (381-403), up to the terminate() of the first idle
\* model: the lock is taken and kept
MonitorIdleUnload ==
  /\ th[Monitor].pc = "mon_idle" /\ lock = Free
  /\ LET idle == IdleNames(table) IN
     IF idle = <<>>
     THEN /\ th' = Upd(Monitor, IdleThread)
          /\ UNCHANGED <<objs, lock>>
     ELSE /\ objs' = StopSignal(objs, Entry(Head(idle)))
          /\ lock' = Monitor
          /\ th' = Upd(Monitor, [IdleThread EXCEPT !.pc = "mon_wait",
                                   !.stopq = <<Entry(Head(idle))>>,
                                   !.process = objs[Entry(Head(idle))].process])
  /\ UNCHANGED <<server, cli, stopcall, hub_config, table, gen, procs, now, ops, phase,
                 should_exit, stop_event, server_exit, hvars>>

\* the rest of _enforce_idle_unload: the wait for that child is over, the
\* loop goes on over the entries that follow, and the lock is released
MonitorIdleWait ==
  /\ th[Monitor].pc = "mon_wait" /\ lock = Monitor
  /\ LET s == Head(th[Monitor].stopq)
         p == th[Monitor].process
         rest == {n \in After(s[1]) : IdleExpired(n)}
     IN \E rc \in WaitCodes(p, FALSE), rcs \in StopCodes(rest) :
          /\ procs' = Exited(ExitedAllOf(rest, rcs), p, rc)
          /\ objs' = StopAllOf(StopFinish(objs, s, rc), rest, rcs)
  /\ lock' = Free
  /\ th' = Upd(Monitor, IdleThread)
  /\ UNCHANGED <<server, cli, stopcall, hub_config, table, gen, now, ops, phase,
                 should_exit, stop_event, server_exit, hvars>>

\* ------------------------------------------------------------- shutdown
\* mutant of RequestShutdown: the stop event is not set
RequestShutdown_NoEvent(t) ==
  /\ Accepting(t) /\ ops < MaxOps
  /\ ops' = ops + 1
  /\ should_exit' = TRUE
  /\ server_exit' = (server \/ server_exit)
  /\ stop_event' = stop_event
  /\ raised' = NoErr
  /\ reply' = HTTPAnswer("shutdown", NoErr)
  /\ UNCHANGED <<server, cli, stopcall, hub_config, table, gen, objs, procs, lock, th, now, phase,
                 last, restart>>

\* request_shutdown (109-120)
RequestShutdown(t) ==
  /\ Accepting(t) /\ ops < MaxOps
  /\ ops' = ops + 1
  /\ should_exit' = TRUE
  /\ server_exit' = (server \/ server_exit)
  /\ stop_event' = TRUE
  /\ raised' = NoErr
  /\ reply' = HTTPAnswer("shutdown", NoErr)
  /\ UNCHANGED <<server, cli, stopcall, hub_config, table, gen, objs, procs, lock, th, now, phase,
                 last, restart>>

\* ---------------------------------------------------- the daemon (main.py)
Main == "t1"

\* start_command: start_initial_models() has returned, the server serves
Serve ==
  /\ phase = "boot" /\ th[Main].pc = "idle"
  /\ phase' = "serve"
  /\ UNCHANGED <<server, cli, stopcall, hub_config, table, gen, objs, procs, lock, th, now, ops,
                 should_exit, stop_event, server_exit, hvars>>

\* start_command: the server has returned; finally: stop_all_models()
Finally ==
  /\ phase = "serve" /\ server_exit /\ th[Main].pc = "idle"
  /\ phase' = "final"
  /\ th' = Upd(Main, IF table = <<>> THEN IdleThread
                     ELSE [IdleThread EXCEPT !.pc = "st_lock", !.route = "final",
                             !.stopq = [i \in 1..Len(table) |-> Entry(table[i])]])
  /\ UNCHANGED <<server, cli, stopcall, hub_config, table, gen, objs, procs, lock, now, ops,
                 should_exit, stop_event, server_exit, hvars>>

\* ---------------------------------------------------------- specification
\* HubRuntime.__post_init__ on configuration c, then start_command up to the
\* first start_model of start_initial_models; active are the request threads
InitDaemon(c, active) ==
  /\ hub_config = c
  /\ table = SeqNames(Configs[c].models)
  /\ gen = 0
  /\ objs = [r \in ObjIds |->
               IF r[2] = 0 /\ r[1] \in Range(SeqNames(Configs[c].models))
               THEN NewState(c, r[1]) ELSE Absent]
  /\ procs = <<>>
  /\ lock = Free
  /\ th = [t \in Threads |->
             IF t = Main
             THEN Routed(Continue(NonJit(Configs[c].models),
                                  SeqNames(Configs[c].models), 0), "boot")
             ELSE IF t \in active \cup {Monitor} THEN IdleThread ELSE OffThread]
  /\ phase = "boot"
  /\ now = 1
  /\ ops = 0
  /\ should_exit = FALSE
  /\ stop_event = FALSE
  /\ server_exit = FALSE
  /\ last = [n \in Names |-> "none"]
  /\ restart = [n \in Names |-> NoTime]
  /\ raised = NoErr
  /\ reply = HTTPAnswer("none", NoErr)
  /\ server = TRUE

\* the daemon on its own: no status command, no call followed apart
InitWith(c, active) ==
  /\ InitDaemon(c, active)
  /\ cli = NoCli
  /\ stopcall = NoStopCall

Init == InitWith(4, OpThreads)

Next ==
  \/ \E t \in OpThreads, n \in Names : BeginStart(t, n)
  \/ \E t \in OpThreads : SM_enter(t)
  \/ \E t \in OpThreads : SM_evict(t)
  \/ \E t \in OpThreads : SM_evict_wait(t)
  \/ \E t \in OpThreads : SM_spawn(t)
  \/ \E t \in OpThreads : SM_spawn_failed(t)
  \/ \E t \in OpThreads : SM_install(t)
  \/ \E t \in OpThreads : SM_health_200(t)
  \/ \E t \in OpThreads : SM_health_exited(t)
  \/ \E t \in OpThreads : SM_health_deadline(t)
  \/ \E t \in OpThreads : SM_finish(t)
  \/ \E t \in OpThreads, n \in Names : BeginStop(t, n)
  \/ \E t \in OpThreads : BeginStopAll(t)
  \/ \E t \in OpThreads : ST_signal(t)
  \/ \E t \in OpThreads : ST_finish(t)
  \/ \E t \in OpThreads, c \in Edits(hub_config) : ReloadConfig(t, c)
  \/ \E t \in OpThreads : ReloadFailed(t)
  \/ \E t \in OpThreads : StatusPayload(t)
  \/ \E t \in OpThreads : StatusSettings(t)
  \/ \E t \in OpThreads : RequestShutdown(t)
  \/ Serve
  \/ Finally
  \/ MonitorRefresh
  \/ MonitorIdleUnload
  \/ MonitorIdleWait
  \/ \E p \in DOMAIN procs : ChildExit(p)
  \/ Tick

Spec == Init /\ [][Next]_vars

\* the HTTP routes are coroutines that call the runtime on the event loop
\* (server.py:27-79): one request at a time, next to the monitor thread
InitSeq == InitWith(1, {"t1"})
SpecSeq == InitSeq /\ [][Next]_vars

\* ------------------------------------------------------- fair scheduling
\* the steps of a call in progress on request thread t
ThreadStep(t) ==
  \/ SM_enter(t) \/ SM_evict(t) \/ SM_evict_wait(t)
  \/ SM_spawn(t) \/ SM_spawn_failed(t) \/ SM_install(t)
  \/ SM_health_200(t) \/ SM_health_exited(t) \/ SM_health_deadline(t)
  \/ SM_finish(t)
  \/ ST_signal(t) \/ ST_finish(t)
  \/ StatusSettings(t)

\* the steps of start_command on the main thread
MainStep == Serve \/ Finally

\* the steps of a daemon whose configuration has no idle policy: those of
\* Next but MonitorIdleWait, the idle pass never finding a model to stop
NextFair ==
  \/ \E t \in OpThreads, n \in Names : BeginStart(t, n)
  \/ \E t \in OpThreads : SM_enter(t)
  \/ \E t \in OpThreads : SM_evict(t)
  \/ \E t \in OpThreads : SM_evict_wait(t)
  \/ \E t \in OpThreads : SM_spawn(t)
  \/ \E t \in OpThreads : SM_spawn_failed(t)
  \/ \E t \in OpThreads : SM_install(t)
  \/ \E t \in OpThreads : SM_health_200(t)
  \/ \E t \in OpThreads : SM_health_exited(t)
  \/ \E t \in OpThreads : SM_health_deadline(t)
  \/ \E t \in OpThreads : SM_finish(t)
  \/ \E t \in OpThreads, n \in Names : BeginStop(t, n)
  \/ \E t \in OpThreads : BeginStopAll(t)
  \/ \E t \in OpThreads : ST_signal(t)
  \/ \E t \in OpThreads : ST_finish(t)
  \/ \E t \in OpThreads, c \in Edits(hub_config) : ReloadConfig(t, c)
  \/ \E t \in OpThreads : ReloadFailed(t)
  \/ \E t \in OpThreads : StatusPayload(t)
  \/ \E t \in OpThreads : StatusSettings(t)
  \/ \E t \in OpThreads : RequestShutdown(t)
  \/ Serve
  \/ Finally
  \/ MonitorRefresh
  \/ MonitorIdleUnload
  \/ \E p \in DOMAIN procs : ChildExit(p)
  \/ Tick

\* Two callers on configuration 10.  Every thread that can go on does so: a
\* call in progress is not starved of the processor or of the lock, every
\* wait of the code has a timeout, and time passes.  No request has to
\* arrive, no child has to exit on its own.
InitFair == InitWith(10, OpThreads)
SpecFair ==
  /\ InitFair /\ [][NextFair]_vars
  /\ \A t \in OpThreads : SF_vars(ThreadStep(t))
  /\ WF_vars(MonitorRefresh \/ MonitorIdleUnload)
  /\ WF_vars(MainStep)
  /\ WF_vars(Tick)

\* ------------------------------------- _stop_process, wait by wait
\* One call _stop_process(state, kill) (runtime.py:537-570) on its own, with
\* the two waits and the timeouts a child can run into.

\* mutant of SP_signal: the hard kill is sent at once
SP_signal_Kill ==
  /\ stopcall.pc = "entry"
  /\ LET s == stopcall.state IN
     IF objs[s].process = NoPid
     THEN /\ objs' = StopNoHandle(objs, s)
          /\ stopcall' = [stopcall EXCEPT !.pc = "returned"]
     ELSE /\ objs' = StopSignal(objs, s)
          /\ stopcall' = [stopcall EXCEPT !.pc = "wait",
                            !.process = objs[s].process,
                            !.signals = <<"kill">>]
  /\ UNCHANGED <<server, cli, hub_config, table, gen, procs, lock, th, now, ops, phase,
                 should_exit, stop_event, server_exit, hvars>>

\* the branch without handle, or status = "stopping" and terminate() or
\* kill() (540-552)
SP_signal ==
  /\ stopcall.pc = "entry"
  /\ LET s == stopcall.state IN
     IF objs[s].process = NoPid
     THEN /\ objs' = StopNoHandle(objs, s)
          /\ stopcall' = [stopcall EXCEPT !.pc = "returned"]
     ELSE /\ objs' = StopSignal(objs, s)
          /\ stopcall' = [stopcall EXCEPT !.pc = "wait",
                            !.process = objs[s].process,
                            !.signals = <<IF stopcall.kill THEN "kill"
                                          ELSE "terminate">>]
  /\ UNCHANGED <<server, cli, hub_config, table, gen, procs, lock, th, now, ops, phase,
                 should_exit, stop_event, server_exit, hvars>>

\* process.wait(timeout=DEFAULT_SIDECAR_SHUTDOWN_TIMEOUT) returns: the child
\* has exited (554-555)
SP_wait_exited ==
  /\ stopcall.pc = "wait"
  /\ \E rc \in WaitCodes(stopcall.process, stopcall.kill) :
       procs' = Exited(procs, stopcall.process, rc)
  /\ stopcall' = [stopcall EXCEPT !.pc = "finish"]
  /\ UNCHANGED <<server, cli, hub_config, table, gen, objs, lock, th, now, ops, phase,
                 should_exit, stop_event, server_exit, hvars>>

\* that wait raises TimeoutExpired: process.kill() (556-557)
SP_wait_timeout ==
  /\ stopcall.pc = "wait" /\ procs[stopcall.process].alive
  /\ stopcall' = [stopcall EXCEPT !.pc = "wait_kill",
                                  !.signals = Append(@, "kill")]
  /\ UNCHANGED <<server, cli, hub_config, table, gen, objs, procs, lock, th, now, ops,
                 phase, should_exit, stop_event, server_exit, hvars>>

\* process.wait(timeout=5) returns: the child has exited (558-559)
SP_kill_exited ==
  /\ stopcall.pc = "wait_kill"
  /\ \E rc \in WaitCodes(stopcall.process, TRUE) :
       procs' = Exited(procs, stopcall.process, rc)
  /\ stopcall' = [stopcall EXCEPT !.pc = "finish"]
  /\ UNCHANGED <<server, cli, hub_config, table, gen, objs, lock, th, now, ops, phase,
                 should_exit, stop_event, server_exit, hvars>>

\* that wait raises TimeoutExpired too: a warning is logged (560-561)
SP_kill_timeout ==
  /\ stopcall.pc = "wait_kill" /\ procs[stopcall.process].alive
  /\ stopcall' = [stopcall EXCEPT !.pc = "finish"]
  /\ UNCHANGED <<server, cli, hub_config, table, gen, objs, procs, lock, th, now, ops,
                 phase, should_exit, stop_event, server_exit, hvars>>

\* process.returncode: None while the child has not exited
returncode(p) == IF procs[p].alive THEN NoCode ELSE procs[p].rc

\* the exit code is recorded and the handle cleared (563-570)
SP_finish ==
  /\ stopcall.pc = "finish"
  /\ objs' = StopFinish(objs, stopcall.state, returncode(stopcall.process))
  /\ stopcall' = [stopcall EXCEPT !.pc = "returned"]
  /\ UNCHANGED <<server, cli, hub_config, table, gen, procs, lock, th, now, ops, phase,
                 should_exit, stop_event, server_exit, hvars>>

\* The states a model can be in when _stop_process is called on it, as
\* <<status, last_error, kill>>.  With a handle: starting or running after
\* start_model cleared last_error (238, 282); failed with the error of a
\* reap pass that fell between the first critical section of a start_model
\* and the install of the new handle (240, 356-357, 271-275); failed with the
\* health error, the one call with kill=True (291-294).
StopInputsWithHandle ==
  {<<"starting", NoErr, FALSE>>, <<"running", NoErr, FALSE>>,
   <<"failed", "exited", FALSE>>, <<"failed", "health", TRUE>>}
\* Without a handle: stopped, or failed in one of the three ways; the health
\* failure whose child a reap pass has collected (kill=True).
StopInputsNoHandle ==
  {<<"stopped", NoErr, FALSE>>, <<"stopped", "oserror", FALSE>>,
   <<"failed", "exited", FALSE>>, <<"failed", "oserror", FALSE>>,
   <<"failed", "health", FALSE>>, <<"failed", "health", TRUE>>}

\* the child of model n when the call begins: alive, or ended on its own
\* and not yet reaped
StopChildren(n) ==
  {[name |-> n, alive |-> TRUE, rc |-> NoCode, own |-> FALSE, h200 |-> h] :
     h \in BOOLEAN}
  \cup {[name |-> n, alive |-> FALSE, rc |-> rc, own |-> TRUE, h200 |-> FALSE] :
          rc \in OwnExitCodes}

\* the table of configuration 1 with model n in the state inp, its handle
\* being child 1 or none
StopTable(n, inp, handle) ==
  [r \in ObjIds |->
     IF r = <<n, 0>>
     THEN [NewState(1, n) EXCEPT !.status = inp[1], !.last_error = inp[2],
                                 !.process = IF handle THEN 1 ELSE NoPid,
                                 !.start_timestamp = 1, !.last_active = 1]
     ELSE IF r[2] = 0 THEN NewState(1, r[1]) ELSE Absent]

\* _stop_process is about to be called on a model of configuration 1
InitStop ==
  /\ hub_config = 1
  /\ table = SeqNames(Configs[1].models)
  /\ gen = 0
  /\ \E n \in Names :
       \/ \E inp \in StopInputsWithHandle, ch \in StopChildren(n) :
            /\ objs = StopTable(n, inp, TRUE)
            /\ procs = <<ch>>
            /\ stopcall = [NoStopCall EXCEPT !.pc = "entry", !.state = <<n, 0>>,
                                             !.kill = inp[3]]
       \/ \E inp \in StopInputsNoHandle :
            /\ objs = StopTable(n, inp, FALSE)
            /\ procs = <<>>
            /\ stopcall = [NoStopCall EXCEPT !.pc = "entry", !.state = <<n, 0>>,
                                             !.kill = inp[3]]
  /\ lock = Free
  /\ th = [t \in Threads |-> IdleThread]
  /\ phase = "serve"
  /\ now = 2
  /\ ops = 0
  /\ should_exit = FALSE
  /\ stop_event = FALSE
  /\ server_exit = FALSE
  /\ last = [n \in Names |-> "none"]
  /\ restart = [n \in Names |-> NoTime]
  /\ raised = NoErr
  /\ reply = HTTPAnswer("none", NoErr)
  /\ server = TRUE
  /\ cli = NoCli

NextStop ==
  \/ SP_signal
  \/ SP_wait_exited
  \/ SP_wait_timeout
  \/ SP_kill_exited
  \/ SP_kill_timeout
  \/ SP_finish

\* every wait of _stop_process has a timeout: the call goes on
SpecStop == InitStop /\ [][NextStop]_vars /\ WF_vars(NextStop)

\* --------------------------- _pick_eviction_candidate on a drawn table
\* start_timestamp is a reading of time.time() (273), a wall clock of finite
\* resolution that can be set back: two children can carry the same value.
PickTimes == {1, 2}
PickConfigs == {1, 7}

\* pid of the child of model n
PickPid(n) == CHOOSE i \in 1..Len(Configs[1].models) : Configs[1].models[i].name = n

\* The table of configuration c in which the models of running have a live
\* child, started at ts[n] and found healthy, and the others had one that
\* ended with code 0 and was reaped.
PickTable(c, running, ts) ==
  [r \in ObjIds |->
     IF r[2] # 0 THEN Absent
     ELSE IF r[1] \in running
     THEN [NewState(c, r[1]) EXCEPT !.status = "running",
                                    !.process = PickPid(r[1]),
                                    !.start_timestamp = ts[r[1]],
                                    !.last_active = ts[r[1]]]
     ELSE [NewState(c, r[1]) EXCEPT !.status = "stopped", !.return_code = 0,
                                    !.start_timestamp = ts[r[1]],
                                    !.last_active = ts[r[1]]]]

PickChildren(c, running) ==
  [i \in 1..Len(Configs[1].models) |->
     LET n == Configs[1].models[i].name IN
     [name |-> n, alive |-> n \in running,
      rc |-> IF n \in running THEN NoCode ELSE 0,
      own |-> n \notin running, h200 |-> TRUE]]

\* start_model(n) has looked up its state; the group holds at most
\* max_loaded live children
InitPick ==
  /\ \E c \in PickConfigs, running \in SUBSET Names, ts \in [Names -> PickTimes],
        n \in Names :
       /\ Cardinality(running) <= Configs[c].max_loaded
       /\ hub_config = c
       /\ table = SeqNames(Configs[c].models)
       /\ objs = PickTable(c, running, ts)
       /\ procs = PickChildren(c, running)
       /\ th = [t \in Threads |->
                  IF t = Main
                  THEN Routed(Continue(<<n>>, SeqNames(Configs[c].models), 0), "start")
                  ELSE IdleThread]
  /\ gen = 0
  /\ lock = Free
  /\ phase = "serve"
  /\ now = 3
  /\ ops = 1
  /\ should_exit = FALSE
  /\ stop_event = FALSE
  /\ server_exit = FALSE
  /\ last = [n \in Names |-> "none"]
  /\ restart = [n \in Names |-> NoTime]
  /\ raised = NoErr
  /\ reply = HTTPAnswer("none", NoErr)
  /\ server = TRUE
  /\ cli = NoCli
  /\ stopcall = NoStopCall

\* the first critical section of that start_model
NextPick == \E t \in OpThreads : SM_enter(t)

SpecPick == InitPick /\ [][NextPick]_vars

\* ------------------------------- start_model with an eviction, on its own
\* The configurations of the drawn tables: 1, and 8, which reload_config
\* put in force while the children started under 1 were kept (156-165: the
\* group's max_loaded is no key of _config_matches).
EvictConfigs == {1, 8}

\* start_model(n) has looked up its state; the group holds at most the
\* max_loaded live children of configuration 1, under which they were started
InitEvict ==
  /\ \E c \in EvictConfigs, running \in SUBSET Names, ts \in [Names -> PickTimes],
        n \in Names :
       /\ Cardinality(running) <= Configs[1].max_loaded
       /\ hub_config = c
       /\ table = SeqNames(Configs[c].models)
       /\ objs = PickTable(c, running, ts)
       /\ procs = PickChildren(c, running)
       /\ th = [t \in Threads |->
                  IF t = Main
                  THEN Routed(Continue(<<n>>, SeqNames(Configs[c].models), 0), "start")
                  ELSE IdleThread]
  /\ gen = 0
  /\ lock = Free
  /\ phase = "serve"
  /\ now = 3
  /\ ops = 1
  /\ should_exit = FALSE
  /\ stop_event = FALSE
  /\ server_exit = FALSE
  /\ last = [n \in Names |-> "none"]
  /\ restart = [n \in Names |-> NoTime]
  /\ raised = NoErr
  /\ reply = HTTPAnswer("none", NoErr)
  /\ server = TRUE
  /\ cli = NoCli
  /\ stopcall = NoStopCall

\* that start_model up to the install of the new handle (223-275)
NextEvict ==
  \/ \E t \in OpThreads : SM_enter(t)
  \/ \E t \in OpThreads : SM_evict(t)
  \/ \E t \in OpThreads : SM_evict_wait(t)
  \/ \E t \in OpThreads : SM_spawn(t)
  \/ \E t \in OpThreads : SM_spawn_failed(t)
  \/ \E t \in OpThreads : SM_install(t)

SpecEvict == InitEvict /\ [][NextEvict]_vars

\* ------------------------------------ the monitor's passes on a drawn table
\* The configurations of the drawn tables: without idle policy (1), with one
\* (6), and with one and a model outside the group (9)
IdleConfigs == {1, 6, 9}
\* the time of the monitor's tick: last_active is 1 or 2 (PickTimes), the
\* trigger is one minute
IdleNows == {2, 61}

\* The monitor thread is about to wake up; the models of running are running
\* since last_active = ts[n], the group within its max_loaded.
InitIdle ==
  /\ \E c \in IdleConfigs, running \in SUBSET Names, ts \in [Names -> PickTimes],
        t0 \in IdleNows :
       /\ Cardinality({n \in running : SpecOf(c, n).group # NoGroup})
            <= Configs[c].max_loaded
       /\ hub_config = c
       /\ table = SeqNames(Configs[c].models)
       /\ objs = PickTable(c, running, ts)
       /\ procs = PickChildren(c, running)
       /\ now = t0
  /\ th = [t \in Threads |-> IdleThread]
  /\ gen = 0
  /\ lock = Free
  /\ phase = "serve"
  /\ ops = 1
  /\ should_exit = FALSE
  /\ stop_event = FALSE
  /\ server_exit = FALSE
  /\ last = [n \in Names |-> "none"]
  /\ restart = [n \in Names |-> NoTime]
  /\ raised = NoErr
  /\ reply = HTTPAnswer("none", NoErr)
  /\ server = TRUE
  /\ cli = NoCli
  /\ stopcall = NoStopCall

\* _monitor_loop (330-335)
NextIdle ==
  \/ MonitorRefresh
  \/ MonitorIdleUnload
  \/ MonitorIdleWait

SpecIdle == InitIdle /\ [][NextIdle]_vars

\* --------------------------- one start_model call next to another request
\* the configuration of the drawn tables: two JIT models, max_loaded 1
StartConfig == 10

\* The table of StartConfig in which the models of running have a live
\* child, found healthy, and the others had one that a stop ended.
StartTable(running) ==
  [r \in ObjIds |->
     IF r[2] # 0 \/ r[1] \notin Range(SeqNames(Configs[StartConfig].models))
     THEN Absent
     ELSE IF r[1] \in running
     THEN [NewState(StartConfig, r[1]) EXCEPT
             !.status = "running",
             !.process = CHOOSE i \in 1..Len(Configs[StartConfig].models) :
                           Configs[StartConfig].models[i].name = r[1],
             !.start_timestamp = 1, !.last_active = 1]
     ELSE [NewState(StartConfig, r[1]) EXCEPT
             !.status = "stopped", !.return_code = 0,
             !.start_timestamp = 1, !.last_active = 2]]

StartChildren(running) ==
  [i \in 1..Len(Configs[StartConfig].models) |->
     LET n == Configs[StartConfig].models[i].name IN
     [name |-> n, alive |-> n \in running,
      rc |-> IF n \in running THEN NoCode ELSE 0,
      own |-> FALSE, h200 |-> TRUE]]

\* start_model(n) has looked up its state on the main thread; one more
\* request can be served while it runs
InitStart ==
  /\ \E c \in {StartConfig}, n \in Range(SeqNames(Configs[StartConfig].models)),
        running \in SUBSET Range(SeqNames(Configs[StartConfig].models)) :
       /\ Cardinality(running) <= Configs[c].max_loaded
       /\ hub_config = c
       /\ table = SeqNames(Configs[c].models)
       /\ objs = StartTable(running)
       /\ procs = StartChildren(running)
       /\ th = [t \in Threads |->
                  IF t = Main
                  THEN Routed(Continue(<<n>>, SeqNames(Configs[c].models), 0), "start")
                  ELSE IdleThread]
  /\ gen = 0
  /\ lock = Free
  /\ phase = "serve"
  /\ now = 3
  /\ ops = 1
  /\ should_exit = FALSE
  /\ stop_event = FALSE
  /\ server_exit = FALSE
  /\ last = [n \in Names |-> "none"]
  /\ restart = [n \in Names |-> NoTime]
  /\ raised = NoErr
  /\ reply = HTTPAnswer("none", NoErr)
  /\ server = TRUE
  /\ cli = NoCli
  /\ stopcall = NoStopCall

\* the steps of that call, of a stop_model or a reload_config that falls
\* into it, of the monitor's passes and of the children
NextStart ==
  \/ \E t \in OpThreads : SM_enter(t)
  \/ \E t \in OpThreads : SM_evict(t)
  \/ \E t \in OpThreads : SM_evict_wait(t)
  \/ \E t \in OpThreads : SM_spawn(t)
  \/ \E t \in OpThreads : SM_spawn_failed(t)
  \/ \E t \in OpThreads : SM_install(t)
  \/ \E t \in OpThreads : SM_health_200(t)
  \/ \E t \in OpThreads : SM_health_exited(t)
  \/ \E t \in OpThreads : SM_health_deadline(t)
  \/ \E t \in OpThreads : SM_finish(t)
  \/ \E t \in OpThreads, n \in Names : BeginStop(t, n)
  \/ \E t \in OpThreads : ST_signal(t)
  \/ \E t \in OpThreads : ST_finish(t)
  \/ \E t \in OpThreads, c \in Edits(hub_config) : ReloadConfig(t, c)
  \/ MonitorRefresh
  \/ MonitorIdleUnload
  \/ \E p \in DOMAIN procs : ChildExit(p)

\* every thread that can go on does so; no request has to arrive, no child
\* has to exit on its own or to answer
SpecStart ==
  /\ InitStart /\ [][NextStart]_vars
  /\ \A t \in OpThreads : SF_vars(ThreadStep(t))
  /\ WF_vars(MonitorRefresh \/ MonitorIdleUnload)

\* ---------------------------------- start_initial_models at the daemon's start
\* the configuration: two auto-started models and a JIT model
BootConfig == 11

InitBoot == InitWith(BootConfig, {Main})

\* start_command up to server.serve(): the start_model calls of
\* start_initial_models, with the monitor's passes and the children alongside;
\* two children never reach the group's max_loaded, so nothing is evicted
NextBoot ==
  \/ \E t \in OpThreads : SM_enter(t)
  \/ \E t \in OpThreads : SM_spawn(t)
  \/ \E t \in OpThreads : SM_spawn_failed(t)
  \/ \E t \in OpThreads : SM_install(t)
  \/ \E t \in OpThreads : SM_health_200(t)
  \/ \E t \in OpThreads : SM_health_exited(t)
  \/ \E t \in OpThreads : SM_health_deadline(t)
  \/ \E t \in OpThreads : SM_finish(t)
  \/ Serve
  \/ MonitorRefresh
  \/ MonitorIdleUnload
  \/ \E p \in DOMAIN procs : ChildExit(p)

SpecBoot == InitBoot /\ [][NextBoot]_vars

\* ------------------------------------ request_shutdown and stop_all_models
\* The runtime with or without attached server, the models of running
\* running; two calls of request_shutdown or stop_all_models follow, with
\* the monitor and the children alongside.
InitShutdown ==
  /\ \E srv \in BOOLEAN,
        running \in SUBSET Range(SeqNames(Configs[StartConfig].models)) :
       /\ Cardinality(running) <= Configs[StartConfig].max_loaded
       /\ server = srv
       /\ objs = StartTable(running)
       /\ procs = StartChildren(running)
  /\ hub_config = StartConfig
  /\ table = SeqNames(Configs[StartConfig].models)
  /\ th = [t \in Threads |-> IdleThread]
  /\ gen = 0
  /\ lock = Free
  /\ phase = "serve"
  /\ now = 3
  /\ ops = 0
  /\ should_exit = FALSE
  /\ stop_event = FALSE
  /\ server_exit = FALSE
  /\ last = [n \in Names |-> "none"]
  /\ restart = [n \in Names |-> NoTime]
  /\ raised = NoErr
  /\ reply = HTTPAnswer("none", NoErr)
  /\ cli = NoCli
  /\ stopcall = NoStopCall

NextShutdown ==
  \/ \E t \in OpThreads : RequestShutdown(t)
  \/ \E t \in OpThreads : BeginStopAll(t)
  \/ \E t \in OpThreads : ST_signal(t)
  \/ \E t \in OpThreads : ST_finish(t)
  \/ Finally
  \/ MonitorRefresh
  \/ MonitorIdleUnload
  \/ \E p \in DOMAIN procs : ChildExit(p)

SpecShutdown == InitShutdown /\ [][NextShutdown]_vars

\* ------------------------------------------ the status command (main.py)
\* The ways client.status() fails with HubClientError: the request fails
\* (client.py:32-35), the daemon answers with a status >= 400 (37-39), the
\* body is not an object (48-49)
ClientErrors == {"request_error", "http_error", "schema_error"}

\* _render_status: the summary of a loaded configuration (main.py:65-93)
_render_status(c) ==
  [view |-> "config",
   models |-> [i \in 1..Len(Configs[c].models) |->
                 [name |-> Configs[c].models[i].name,
                  port |-> Configs[c].models[i].port,
                  group |-> Configs[c].models[i].group,
                  jit |-> Configs[c].models[i].jit_enabled]],
   max_loaded |-> Configs[c].max_loaded,
   idle_unload_trigger_min |-> Configs[c].idle_unload_trigger_min]

\* _render_daemon_status: the summary of a /hub/status payload, here of a
\* daemon that has loaded configuration d (main.py:129-166)
_render_daemon_status(d) ==
  [view |-> "daemon",
   models |-> [i \in 1..Len(Configs[d].models) |->
                 [name |-> Configs[d].models[i].name,
                  port |-> Configs[d].models[i].port,
                  group |-> Configs[d].models[i].group,
                  jit |-> Configs[d].models[i].jit_enabled]],
   max_loaded |-> Configs[d].max_loaded,
   idle_unload_trigger_min |-> Configs[d].idle_unload_trigger_min]

\* the notice echoed before the fallback (main.py:266)
Unreachable(err) == [view |-> "Hub daemon unreachable", error |-> err]

\* status_command up to the daemon call (main.py:255-263)
CliStatus ==
  /\ cli.pc = "status"
  /\ cli' = IF ~cli.client
            THEN [cli EXCEPT !.pc = "exit", !.exit_code = 0,
                             !.out = <<_render_status(cli.config)>>]
            ELSE IF cli.answer \in ClientErrors
            THEN [cli EXCEPT !.pc = "except"]
            ELSE [cli EXCEPT !.pc = "render"]
  /\ UNCHANGED <<dvars, stopcall>>

\* mutant of CliFallback: the ClickException leaves the command
CliFallback_Raises ==
  /\ cli.pc = "except"
  /\ cli' = [cli EXCEPT !.pc = "exit", !.exit_code = 1,
                        !.out = <<[view |-> "Error", error |-> cli.answer]>>]
  /\ UNCHANGED <<dvars, stopcall>>

\* except click.ClickException: the notice and the config view (264-269)
CliFallback ==
  /\ cli.pc = "except"
  /\ cli' = [cli EXCEPT !.pc = "exit", !.exit_code = 0,
                        !.out = <<Unreachable(cli.answer),
                                  _render_status(cli.config)>>]
  /\ UNCHANGED <<dvars, stopcall>>

\* the daemon answered: its view is echoed (271-272)
CliRender ==
  /\ cli.pc = "render"
  /\ cli' = [cli EXCEPT !.pc = "exit", !.exit_code = 0,
                        !.out = <<_render_daemon_status(cli.payload)>>]
  /\ UNCHANGED <<dvars, stopcall>>

\* The CLI has loaded hub.yaml (configuration c) and built its context, with
\* or without client; answer is what client.status() is going to do: fail,
\* or return the payload of a daemon running configuration d ("ok").
InitCli ==
  /\ InitDaemon(1, OpThreads)
  /\ stopcall = NoStopCall
  /\ \E c \in ConfigIds :
       \/ cli = [NoCli EXCEPT !.pc = "status", !.config = c]
       \/ \E answer \in ClientErrors :
            cli = [NoCli EXCEPT !.pc = "status", !.config = c,
                                !.client = TRUE, !.answer = answer]
       \/ \E d \in ConfigIds :
            cli = [NoCli EXCEPT !.pc = "status", !.config = c,
                                !.client = TRUE, !.answer = "ok",
                                !.payload = d]

NextCli ==
  \/ CliStatus
  \/ CliFallback
  \/ CliRender

SpecCli == InitCli /\ [][NextCli]_vars

\* ================================================================ claims
\* table entries of group g that hold a process handle
Holders(g) ==
  {n \in Range(table) : objs[Entry(n)].config.group = g
                        /\ objs[Entry(n)].process # NoPid}

\* C1: whenever the table lock is free, the number of table entries of the
\* group that hold a process handle is at most the group's max_loaded.
C1_GroupCapacity ==
  (lock = Free /\ Configs[hub_config].max_loaded # 0)
    => Cardinality(Holders("g")) <= Configs[hub_config].max_loaded

\* C2: whenever the table lock is free, a table entry has no process handle
\* exactly when its status is configured, stopped or failed.
C2_HandleIffStatus ==
  lock = Free =>
    \A n \in Range(table) :
      (objs[Entry(n)].process = NoPid)
        <=> (objs[Entry(n)].status \in {"configured", "stopped", "failed"})

LiveChildren(n) == {p \in DOMAIN procs : procs[p].alive /\ procs[p].name = n}

\* C3: at no point are there two live children spawned for one model name.
C3_OneLiveChild == \A n \in Names : Cardinality(LiveChildren(n)) <= 1

\* C4: a table entry whose status is running and that holds a child has had
\* a GET /health of that child answered 200.
C4_RunningWasHealthy ==
  \A n \in Range(table) :
    (objs[Entry(n)].status = "running" /\ objs[Entry(n)].process # NoPid)
      => procs[objs[Entry(n)].process].h200

\* the peers _pick_eviction_candidate has to count for target s
PeersRunning(s) ==
  {n \in Range(table) : /\ n # s[1]
                        /\ objs[Entry(n)].config.group = objs[s].config.group
                        /\ is_running(Entry(n))}

\* thread t leaves start_model in this step, its child healthy, having
\* evicted a peer
FinishAfterEviction(t) ==
  /\ th[t].pc = "sm_finish" /\ th'[t].pc # "sm_finish"
  /\ th[t].healthy /\ th[t].evict # NoRef

\* C5 as amended: start_model evicts exactly when the target's group has
\* max_loaded running peers; the evicted state is a running peer of the
\* group, not the target, with the least start_timestamp; the stop changes
\* that state alone and leaves it without handle, stopped if the child's
\* exit code is 0 or none and failed otherwise; when the target's child is
\* healthy the target ends running and the peer is still without handle,
\* stopped or failed.
C5_Eviction ==
  [][\A t \in OpThreads :
       LET s == th[t].state
           e == th'[t].evict
           K == Configs[hub_config].max_loaded
       IN /\ (th[t].pc = "sm_enter" /\ th'[t].pc = "sm_evict")
               => /\ e[1] \in PeersRunning(s) /\ e[2] = gen
                  /\ Cardinality(PeersRunning(s)) >= K
                  /\ \A n \in PeersRunning(s) :
                       objs[e].start_timestamp <= objs[Entry(n)].start_timestamp
          /\ (th[t].pc = "sm_enter" /\ th'[t].pc = "sm_spawn" /\ K # 0
              /\ objs[s].config.group # NoGroup)
               => Cardinality(PeersRunning(s)) < K
          /\ (th[t].pc \in {"sm_evict", "sm_evict_wait"} /\ th'[t].pc = "sm_spawn")
               => /\ \A r \in ObjIds \ {e} : objs'[r] = objs[r]
                  /\ objs'[e].process = NoPid
                  /\ objs'[e].status =
                       IF objs'[e].return_code \in {NoCode, 0} THEN "stopped"
                       ELSE "failed"
          /\ FinishAfterEviction(t)
               => /\ objs'[s].status = "running"
                  /\ objs'[th[t].evict].process = NoPid
                  /\ objs'[th[t].evict].status \in {"stopped", "failed"}]_vars

\* C5 as claimed: when the target's child is healthy, the evicted peer ends
\* stopped and the target ends running.
C5_EvictedEndsStopped ==
  [][\A t \in OpThreads :
       FinishAfterEviction(t)
         => /\ objs'[th[t].state].status = "running"
            /\ objs'[th[t].evict].status = "stopped"]_vars

\* C5 witness: a start is about to return healthy after evicting the oldest
\* of two running peers, whose child died of the terminate signal.
C5_Witness ==
  \E t \in OpThreads :
    /\ th[t].pc = "sm_finish" /\ th[t].healthy /\ th[t].evict # NoRef
    /\ last[th[t].evict[1]] = "evicted"
    /\ objs[th[t].evict].status = "failed"
    /\ objs[th[t].evict].process = NoPid
    /\ \E n \in PeersRunning(th[t].state) :
         objs[Entry(n)].start_timestamp > objs[th[t].evict].start_timestamp

\* C6: after a start_model whose health wait failed, and until the next
\* request on that model, the model is failed, without handle, and its
\* last_error is the health check error.
C6_HealthFailureStays ==
  \A n \in Range(table) :
    last[n] = "health_failed"
      => /\ objs[Entry(n)].status = "failed"
         /\ objs[Entry(n)].last_error = "health"
         /\ objs[Entry(n)].process = NoPid

\* thread t runs _stop_process, under the lock, on a state that is stopped
\* and has no handle
StopOfStopped(t) ==
  /\ th[t].pc = "st_lock" /\ th'[t] # th[t]
  /\ objs[Head(th[t].stopq)].process = NoPid
  /\ objs[Head(th[t].stopq)].status = "stopped"

\* after two stops in a row the model is stopped and has no handle
TwiceStopped ==
  \A n \in Range(table') :
    last'[n] = "stop2"
      => /\ objs'[<<n, gen'>>].status = "stopped"
         /\ objs'[<<n, gen'>>].process = NoPid

\* C7 as amended: after two stops in a row the model is stopped and has no
\* handle; a stop of a model that is stopped and has no handle changes
\* last_active and resets return_code to none, and nothing else.
C7_StopIdempotent ==
  [][/\ TwiceStopped
     /\ \A t \in OpThreads :
          StopOfStopped(t)
            => objs'[Head(th[t].stopq)] =
                 [objs[Head(th[t].stopq)] EXCEPT !.last_active = now,
                                                 !.return_code = NoCode]]_vars

\* C7 as claimed: ... a stop of a stopped model changes last_active only.
C7_StopChangesOnlyLastActive ==
  [][/\ TwiceStopped
     /\ \A t \in OpThreads :
          StopOfStopped(t)
            => objs'[Head(th[t].stopq)] =
                 [objs[Head(th[t].stopq)] EXCEPT !.last_active = now]]_vars

\* C7 witness: a model that was started has been stopped twice in a row.
C7_Witness ==
  \E n \in Range(table) :
    /\ last[n] = "stop2"
    /\ objs[Entry(n)].start_timestamp # NoTime
    /\ objs[Entry(n)].status = "stopped"
    /\ objs[Entry(n)].return_code = NoCode

\* C8: a reload_config that loads the configuration in force keeps, for
\* every table entry with a live child, the handle and the start_timestamp,
\* leaves the child alive and spawns nothing; the start_model that
\* start_initial_models then makes on a model whose child is alive spawns
\* and stops nothing and keeps handle and start_timestamp.
C8_UnchangedReload ==
  [][/\ (gen' = gen + 1 /\ hub_config' = hub_config)
          => /\ Len(procs') = Len(procs)
             /\ \A n \in Range(table) :
                  is_running(Entry(n))
                    => /\ n \in Range(table')
                       /\ objs'[<<n, gen'>>].process = objs[Entry(n)].process
                       /\ objs'[<<n, gen'>>].start_timestamp
                            = objs[Entry(n)].start_timestamp
                       /\ procs'[objs[Entry(n)].process].alive
     /\ \A t \in OpThreads :
          (th[t].pc = "sm_enter" /\ th'[t] # th[t] /\ is_running(th[t].state)
           /\ th[t].state[2] = gen)
            => /\ procs' = procs
               /\ th'[t].pc \notin {"sm_evict", "sm_spawn"}
               /\ objs'[th[t].state].process = objs[th[t].state].process
               /\ objs'[th[t].state].start_timestamp
                    = objs[th[t].state].start_timestamp]_vars

\* C8 witness: after reloads of the unchanged configuration the
\* auto-started model still runs its first child, and the start_model of
\* start_initial_models has found it running.
C8_Witness ==
  /\ gen >= 1 /\ hub_config = 1
  /\ last["a"] = "already"
  /\ is_running(Entry("a"))
  /\ objs[Entry("a")].process = 1

\* C9: whenever the table lock is free, every live child belongs to a name
\* of the table, and the names of the table are the model names of the
\* configuration in force.
C9_NoChildOfRemovedName ==
  lock = Free =>
    /\ \A p \in DOMAIN procs : procs[p].alive => procs[p].name \in Range(table)
    /\ Range(table) = Range(SeqNames(Configs[hub_config].models))

C11_FailedReloadChangesNothing ==
  [][(ops' = ops + 1 /\ raised' = "reload_failed")
       => UNCHANGED <<hub_config, table, gen, objs, procs, th, lock>>]_vars

\* C11 witness: a reload has failed while a model was running.
C11_Witness ==
  /\ raised = "reload_failed"
  /\ \E n \in Range(table) :
       is_running(Entry(n)) /\ objs[Entry(n)].status = "running"

\* C12: a start_model, stop_model, load_model or unload_model on a name that
\* is not in the table raises "Unknown model" and leaves the table, every
\* ModelProcessState and every child as they were; on a name of the table
\* it does not raise that error.
C12_UnknownModelChangesNothing ==
  [][(ops' = ops + 1 /\ raised' = "unknown_model")
       => /\ UNCHANGED <<hub_config, table, gen, objs, procs, th, lock>>
          /\ Range(table) # Names]_vars

\* C12 witness: a call on an unknown name has been refused while a model
\* was running.
C12_Witness ==
  /\ raised = "unknown_model"
  /\ \E n \in Range(table) :
       is_running(Entry(n)) /\ objs[Entry(n)].status = "running"

\* thread t leaves start_model in this step because the spawn failed
SpawnFailure(t) ==
  /\ th[t].pc = "sm_spawn" /\ th'[t].pc # "sm_spawn"
  /\ Len(procs') = Len(procs)

\* C13: when the spawn fails, start_model returns with the model failed,
\* last_error the text of the spawn error, and no process handle.
C13_SpawnFailure ==
  [][\A t \in OpThreads :
       SpawnFailure(t)
         => /\ last'[th[t].state[1]] = "spawn_failed"
            /\ objs'[th[t].state].status = "failed"
            /\ objs'[th[t].state].last_error = "oserror"
            /\ objs'[th[t].state].process = NoPid]_vars

\* the finally-path has run to its end and no call is in flight
ShutDown ==
  /\ phase = "final" /\ should_exit
  /\ \A t \in OpThreads : th[t].pc \in {"idle", "off"}
  /\ th[Monitor].pc = "idle"

\* C14: after request_shutdown and the stop_all_models of the finally-path,
\* once no call is in flight, no table entry holds a process handle.
C14_NoHandleAfterShutdown ==
  ShutDown => \A n \in Range(table) : objs[Entry(n)].process = NoPid

\* the monitor runs the test of _enforce_idle_unload in this step
IdleTest == th[Monitor].pc = "mon_idle" /\ th'[Monitor].pc # "mon_idle"

\* the monitor ends a pass of _enforce_idle_unload that stopped a model
IdleWaitOver == th[Monitor].pc = "mon_wait" /\ th'[Monitor].pc # "mon_wait"

\* table entry n is a JIT model with a live child, in a group with an idle
\* trigger of T minutes, whose last activity is at least T*60 seconds old
IdleFor(n) ==
  LET st == objs[Entry(n)]
      T == Configs[hub_config].idle_unload_trigger_min
      since == IF st.last_active # NoTime THEN st.last_active
               ELSE st.start_timestamp
  IN /\ st.config.jit_enabled /\ st.config.group # NoGroup
     /\ st.process # NoPid /\ procs[st.process].alive
     /\ T > 0 /\ since # NoTime
     /\ since + T * 60 <= now

\* this step leaves state s without handle, stopped with last_error as it
\* was when the exit code is 0 or none, failed with a last_error when not
StopOutcome(s) ==
  /\ objs'[s].process = NoPid
  /\ IF objs'[s].return_code \in {NoCode, 0}
     THEN /\ objs'[s].status = "stopped"
          /\ objs'[s].last_error = objs[s].last_error
     ELSE /\ objs'[s].status = "failed"
          /\ objs'[s].last_error # NoErr

StatusStep(t) == th[t].pc = "idle" /\ th'[t].pc = "sp_settings"

\* C16: status_payload lists the models of the table; a model whose last
\* request was a start_model that returned healthy, and whose child is
\* alive, is reported running with a pid; a model whose last request was a
\* stop_model is reported stopped without pid.
C16_StartStopStatus ==
  [][\A t \in OpThreads :
       StatusStep(t)
         => /\ th'[t].view.models = table
            /\ \A n \in Range(table) :
                 /\ (last[n] = "started" /\ is_running(Entry(n)))
                      => /\ objs'[Entry(n)].status = "running"
                         /\ objs'[Entry(n)].process # NoPid
                 /\ last[n] \in {"stop1", "stop2"}
                      => /\ objs'[Entry(n)].status = "stopped"
                         /\ objs'[Entry(n)].process = NoPid]_vars

\* C16 witness: a status_payload is reporting a model that was started and
\* then stopped, its child dead of the terminate signal, as stopped.
C16_Witness ==
  \E t \in OpThreads, n \in Range(table) :
    /\ th[t].pc = "sp_settings" /\ n \in Range(th[t].view.models)
    /\ last[n] = "stop1"
    /\ objs[Entry(n)].start_timestamp # NoTime
    /\ objs[Entry(n)].return_code = SIGTERM
    /\ objs[Entry(n)].status = "stopped" /\ objs[Entry(n)].process = NoPid

\* thread t is in a blocking call: the spawn or the health probe of a
\* start, or the wait for a child to exit of a stop
Blocked(t) ==
  th[t].pc \in {"sm_spawn", "sm_health", "sm_evict_wait", "st_wait"}

\* C17: a thread in a blocking call does not hold the table lock.
C17_NoLockAcrossBlocking ==
  \A t \in OpThreads : Blocked(t) => lock # t

\* C18: every write to a field of a ModelProcessState is made by a thread
\* that holds the table lock: while a thread holds the lock, no step of
\* another thread changes a ModelProcessState.
C18_WritesUnderLock ==
  [][\A t \in Threads :
       (lock = t /\ th'[t] = th[t])
         => \A r \in ObjIds :
              (objs[r].exists /\ objs'[r].exists) => objs'[r] = objs[r]]_vars

\* C19: the models a status_payload has listed and the hub settings and
\* group summaries it is about to read come from one configuration.
C19_StatusOfOneConfig ==
  \A t \in OpThreads :
    th[t].pc = "sp_settings" => th[t].view.config = hub_config

\* this step is one of the monitor thread, of a status_payload, or the exit
\* of a child
PassiveStep ==
  \/ th'[Monitor] # th[Monitor]
  \/ \E t \in OpThreads :
       StatusStep(t) \/ (th[t].pc = "sp_settings" /\ th'[t].pc # "sp_settings")
  \/ \E p \in DOMAIN procs : procs[p].alive /\ ~procs'[p].alive /\ procs'[p].own

\* a model that had no starting ModelProcessState has one after this step
NewStarting ==
  \E r \in ObjIds :
    /\ objs'[r].exists /\ objs'[r].status = "starting"
    /\ ~\E q \in ObjIds : /\ q[1] = r[1]
                           /\ objs[q].exists /\ objs[q].status = "starting"

\* thread t is inside start_model
InStart(r) ==
  r.pc \in {"sm_enter", "sm_evict", "sm_evict_wait", "sm_spawn", "sm_install",
            "sm_health", "sm_finish"}

\* C20: a child is spawned only by a thread at the Popen of start_model, a
\* state becomes starting only in the first critical section of
\* start_model, and a thread enters start_model only when a request is
\* accepted or on the next model of start_initial_models; a step of the
\* monitor, of status_payload or the exit of a child spawns nothing, moves
\* no model to starting and sends no thread into start_model.
C20_NoAutomaticRestart ==
  [][/\ Len(procs') > Len(procs)
          => \E t \in OpThreads : th[t].pc = "sm_spawn" /\ th'[t].pc = "sm_install"
     /\ NewStarting => \E t \in OpThreads : th[t].pc = "sm_enter" /\ th'[t] # th[t]
     /\ \A t \in OpThreads :
          (~InStart(th[t]) /\ InStart(th'[t])) => ops' = ops + 1
     /\ PassiveStep
          => /\ Len(procs') = Len(procs)
             /\ ~NewStarting
             /\ \A t \in OpThreads : InStart(th'[t]) => th'[t] = th[t]]_vars

\* C20 witness: a child that failed on its own has been reaped by the
\* monitor; its model has no handle and no live child.
C20_Witness ==
  \E p \in DOMAIN procs :
    /\ procs[p].own /\ procs[p].rc = 1
    /\ th[Monitor].pc = "mon_idle"
    /\ InTable(procs[p].name)
    /\ objs[Entry(procs[p].name)].process = NoPid
    /\ objs[Entry(procs[p].name)].return_code = 1
    /\ objs[Entry(procs[p].name)].status = "failed"
    /\ LiveChildren(procs[p].name) = {}

\* the runtime call of a route ends in this step of thread t
CallEnds(t) ==
  /\ th[t].pc # "idle" /\ th[t].route \in Routes /\ th'[t].pc = "idle"

\* the start_model that ends the runtime call of thread t raises: the Popen
\* failed or the health check failed
StartRaises(t) ==
  /\ th[t].route = "start"
  /\ last'[th[t].state[1]] \in {"spawn_failed", "health_failed"}

NoCallInFlight == \A t \in OpThreads : th[t].pc \in {"idle", "off", "sp_settings"}

\* C23: once no runtime call is in flight, every live child is the process
\* handle of the current table entry of its model name
C23_LiveChildIsReferenced ==
  NoCallInFlight =>
    \A p \in DOMAIN procs :
      procs[p].alive =>
        /\ InTable(procs[p].name)
        /\ objs[Entry(procs[p].name)].process = p

\* a step of the monitor thread, or the reap pass of a status projection
ReapOrMonitorStep ==
  \/ th'[Monitor] # th[Monitor]
  \/ \E t \in OpThreads : StatusStep(t)

\* C24: a table entry whose status is failed is still failed after a step
\* of the monitor thread or of a status projection
C24_FailedStaysFailed ==
  [][ReapOrMonitorStep =>
       \A n \in Range(table) :
         objs[Entry(n)].status = "failed" => objs'[Entry(n)].status = "failed"]_vars

\* thread t passes the first critical section of a start_model whose target
\* is a table entry with a live child
StartOfRunning(t) ==
  /\ th[t].pc = "sm_enter" /\ th'[t] # th[t]
  /\ th[t].state = Entry(th[t].state[1]) /\ InTable(th[t].state[1])
  /\ is_running(th[t].state)

\* C25: start_model on a model whose child is alive spawns no child and
\* stops no peer: the call ends there, no process and no other table entry
\* changes, and the target keeps its handle and start_timestamp, is running,
\* has no last_error and has last_active = now
C25_StartOfRunning ==
  [][\A t \in OpThreads :
       StartOfRunning(t) =>
         LET s == th[t].state IN
         /\ procs' = procs
         /\ th'[t].pc \in {"idle", "sm_enter"} /\ th'[t].state # s
         /\ objs'[s] = [objs[s] EXCEPT !.status = "running",
                                       !.last_error = NoErr,
                                       !.last_active = now]
         /\ objs'[s].process = objs[s].process
         /\ objs'[s].start_timestamp = objs[s].start_timestamp
         /\ \A r \in ObjIds \ {s} : r[2] = gen => objs'[r] = objs[r]]_vars

\* C25 witness: start_model has found its target running while the group
\* held as many live children as max_loaded allows, and all of them still run
C25_Witness ==
  \E n \in Range(table) :
    /\ last[n] = "already" /\ is_running(Entry(n))
    /\ objs[Entry(n)].status = "running"
    /\ Configs[hub_config].max_loaded # 0
    /\ Cardinality({m \in Range(table) : is_running(Entry(m))})
         = Configs[hub_config].max_loaded
    /\ \A m \in Range(table) : is_running(Entry(m)) => last[m] \in {"already", "started"}

\* reload_config replaces the table in this step
ReloadStep == gen' = gen + 1

\* C27: reload_config keeps the existing child of a model exactly when the
\* model has a handle and its old and new ModelSpec are equal in every
\* field; otherwise the old child is stopped and the new state is a fresh
\* configured/stopped state without handle
C27_KeepsIffEqual ==
  [][ReloadStep =>
       \A n \in Range(table) \cap Range(table') :
         LET old == objs[Entry(n)]
             new == objs'[<<n, gen'>>]
         IN IF old.process # NoPid /\ old.config = new.config
            THEN new.process = old.process
            ELSE /\ new.process = NoPid
                 /\ new.status = IF new.config.jit_enabled THEN "configured"
                                  ELSE "stopped"
                 /\ old.process # NoPid => ~procs'[old.process].alive]_vars

\* the reap pass runs in this step: at the start of a monitor tick or of a
\* status projection
ReapStep ==
  \/ th[Monitor].pc = "idle" /\ th'[Monitor].pc = "mon_idle"
  \/ \E t \in OpThreads : StatusStep(t)

\* C29: a reap pass that finds the child of a table entry exited records
\* the exit code, clears the handle, sets last_active to now, and sets the
\* status to failed for a non-zero exit code and to stopped for zero
C29_Reap ==
  [][ReapStep =>
       \A n \in Range(table) :
         LET old == objs[Entry(n)]
             new == objs'[Entry(n)]
         IN (old.process # NoPid /\ ~procs[old.process].alive) =>
              /\ new.return_code = procs[old.process].rc
              /\ new.process = NoPid
              /\ new.last_active = now
              /\ new.status = IF procs[old.process].rc = 0 THEN "stopped"
                               ELSE "failed"]_vars

\* C29 witness: the reap pass of a status projection has found a child
\* that ended on its own with exit code 0
C29_Witness ==
  \E t \in OpThreads, p \in DOMAIN procs :
    /\ th[t].pc = "sp_settings"
    /\ procs[p].own /\ procs[p].rc = 0 /\ InTable(procs[p].name)
    /\ objs[Entry(procs[p].name)].return_code = 0
    /\ objs[Entry(procs[p].name)].process = NoPid
    /\ objs[Entry(procs[p].name)].status = "stopped"
    /\ objs[Entry(procs[p].name)].last_active = now

\* the followed _stop_process call records the exit code in this step
StopEnds == stopcall.pc = "finish" /\ stopcall'.pc = "returned"

\* C28: when a stop of a model with a handle finishes, return_code is the
\* child's exit code and the handle is cleared; for an exit code of none or
\* 0 the model is stopped and a last_error "exited with code" is cleared;
\* for any other exit code the model is failed, with the synthesized
\* "exited with code" error unless last_error was set
C28_StopFinish ==
  [][StopEnds =>
       LET rc == returncode(stopcall.process)
           old == objs[stopcall.state]
           new == objs'[stopcall.state]
       IN /\ new.return_code = rc
          /\ new.process = NoPid
          /\ IF rc \in {NoCode, 0}
             THEN /\ new.status = "stopped"
                  /\ new.last_error = IF old.last_error = "exited" THEN NoErr
                                      ELSE old.last_error
             ELSE /\ new.status = "failed"
                  /\ new.last_error = IF old.last_error = NoErr THEN "exited"
                                      ELSE old.last_error]_vars

\* the followed call is a graceful stop of a model with a handle
Graceful == ~stopcall.kill /\ stopcall.signals # <<>>

\* C30: a graceful stop of a model with a handle sends terminate first and
\* the hard kill at most once after it, and only when the first wait timed
\* out with the child alive; it always returns, and when it has returned
\* the handle is cleared, whether or not the child has exited
C30_GracefulStop ==
  /\ [](Graceful => stopcall.signals \in {<<"terminate">>, <<"terminate", "kill">>})
  /\ [][(Graceful /\ Len(stopcall'.signals) > Len(stopcall.signals)) =>
          /\ stopcall.pc = "wait" /\ procs[stopcall.process].alive
          /\ stopcall'.pc = "wait_kill"]_vars
  /\ []((Graceful /\ stopcall.pc = "returned") =>
          objs[stopcall.state].process = NoPid)
  /\ (Graceful ~> stopcall.pc = "returned")

\* C30 witness: a graceful stop has returned although the child survived
\* terminate and the hard kill: the handle is cleared, no exit code is known
C30_Witness ==
  /\ stopcall.pc = "returned" /\ ~stopcall.kill
  /\ stopcall.signals = <<"terminate", "kill">>
  /\ procs[stopcall.process].alive
  /\ objs[stopcall.state].process = NoPid
  /\ objs[stopcall.state].return_code = NoCode
  /\ objs[stopcall.state].status = "stopped"

\* the names in the order of Python's string comparison
NameOrder == <<"a", "b", "c">>
NameRank(n) == CHOOSE i \in 1..Len(NameOrder) : NameOrder[i] = n

\* the running peers of the target of thread t
PeersOf(t) ==
  {Entry(m) : m \in {k \in Range(table) :
                       /\ k # th[t].state[1]
                       /\ is_running(Entry(k))
                       /\ objs[Entry(k)].config.group = objs[th[t].state].config.group}}

\* C26: the eviction candidate is a running peer with the smallest
\* start_timestamp and, among those, the one with the smallest name
C26_TieByName ==
  \A t \in OpThreads :
    th[t].pc = "sm_evict" =>
      LET oldest == {r \in PeersOf(t) :
                       \A q \in PeersOf(t) :
                         objs[r].start_timestamp <= objs[q].start_timestamp}
      IN /\ th[t].evict \in oldest
         /\ \A q \in oldest : NameRank(th[t].evict[1]) <= NameRank(q[1])

\* C22: a status command whose daemon request raised a client error has
\* echoed the "Hub daemon unreachable" notice followed by the summary of
\* the configuration it loaded, and exits with code 0
C22_StatusFallsBack ==
  (cli.pc = "exit" /\ cli.client /\ cli.answer \in ClientErrors) =>
    /\ cli.exit_code = 0
    /\ Len(cli.out) = 2
    /\ cli.out[1].view = "Hub daemon unreachable"
    /\ cli.out[2] = _render_status(cli.config)

\* C22 witness: the request to the daemon failed and the command has ended
C22_Witness ==
  /\ cli.pc = "exit" /\ cli.client /\ cli.answer = "request_error"
  /\ cli.exit_code = 0
  /\ cli.out = <<Unreachable("request_error"), _render_status(cli.config)>>

\* the peers of the target of thread t that hold a process handle: with one
\* call and nothing else at work, the members of the call's view that still
\* have their child
ViewHolders(t) ==
  {m \in Range(table) :
     /\ m # th[t].state[1]
     /\ objs[Entry(m)].config.group = objs[th[t].state].config.group
     /\ objs[Entry(m)].process # NoPid}

\* C31: when a start_model call that evicts a peer is about to spawn the
\* target's child, the handle of the evicted peer is cleared and at most
\* max_loaded - 1 peers of the call's view hold a child
C31_EvictionBeforeSpawn ==
  \A t \in OpThreads :
    (th[t].pc = "sm_spawn" /\ th[t].evict # NoRef) =>
      /\ objs[th[t].evict].process = NoPid
      /\ Cardinality(ViewHolders(t)) <= Configs[hub_config].max_loaded - 1

\* the idle pass stops table entry n in this step: it sends it terminate(),
\* or stops it in the rest of its loop
IdleStops(n) ==
  \/ /\ th[Monitor].pc = "mon_idle" /\ th'[Monitor].pc # "mon_idle"
     /\ objs'[Entry(n)] # objs[Entry(n)]
  \/ /\ th[Monitor].pc = "mon_wait" /\ th'[Monitor].pc # "mon_wait"
     /\ Entry(n) # Head(th[Monitor].stopq)
     /\ objs'[Entry(n)] # objs[Entry(n)]

C33_StartingEnds ==
  \A n \in Names :
    (InTable(n) /\ objs[Entry(n)].status = "starting")
      ~> (~InTable(n) \/ objs[Entry(n)].status # "starting")

\* the positions at which a thread is about to enter a with self._lock block
AtLock == {"sm_enter", "sm_install", "sm_finish", "st_lock", "mon_idle"}
\* the positions inside a with self._lock block: the waits of _stop_process
InLock == {"st_wait", "mon_wait"}

\* C34: the holder of the table lock is inside a with block, at no place
\* where it would take the lock again, and the step that ends its wait and
\* leaves the block is enabled: no thread waits for a lock that is never
\* released
C34_NoDeadlock ==
  /\ lock \in Threads \cup {Free}
  /\ \A t \in Threads :
       lock = t =>
         /\ th[t].pc \in InLock
         /\ th[t].pc \notin AtLock
         /\ \/ t = Monitor /\ ENABLED MonitorIdleWait
            \/ t \in OpThreads /\ ENABLED ST_finish(t)
  /\ \A t \in Threads : th[t].pc \in {"idle", "off"} => lock # t

\* C34 witness: a request thread waits for a child with the lock held while
\* the other request thread and the monitor are about to take the lock
C34_Witness ==
  /\ lock = "t1" /\ th["t1"].pc = "st_wait"
  /\ th["t2"].pc \in AtLock
  /\ th[Monitor].pc = "mon_idle"

\* the positions of a thread inside start_model
StartPcs == {"sm_enter", "sm_evict", "sm_evict_wait", "sm_spawn", "sm_install",
             "sm_health", "sm_finish"}

\* C35: a thread inside start_model eventually leaves it, and its health wait
\* is left by its own step only, with the answer True while the child is
\* running (a 200, or the deadline) and False once it is not
C35_StartEnds ==
  /\ \A t \in OpThreads : (th[t].pc \in StartPcs) ~> (th[t].pc \notin StartPcs)
  /\ [][\A t \in OpThreads :
          (th[t].pc = "sm_health" /\ th'[t] # th[t]) =>
            /\ th'[t].pc = "sm_finish"
            /\ th'[t].state = th[t].state
            /\ th'[t].healthy = is_running(th[t].state)]_vars

\* C35 witness: a start_model call has raised after its health wait ended
\* with the child gone, and its thread is idle again
C35_Witness ==
  /\ th[Main].pc = "idle"
  /\ reply = HTTPAnswer("start", "health_failed")
  /\ \E n \in Names : last[n] = "health_failed"

\* C36: a status_payload leaves every field of a table entry whose child is
\* alive as it was, last_active included, and with it the outcome of the
\* idle test for that entry
C36_StatusLeavesRunning ==
  [][\A t \in OpThreads :
       (StatusStep(t) \/ (th[t].pc = "sp_settings" /\ th'[t].pc = "idle")) =>
         \A n \in Range(table) :
           is_running(Entry(n)) =>
             /\ objs'[Entry(n)] = objs[Entry(n)]
             /\ objs'[Entry(n)].last_active = objs[Entry(n)].last_active
             /\ IdleExpired(n)' = IdleExpired(n)]_vars

\* C36 witness: a status_payload has made its reap pass while a model is
\* running and due for the idle unload
C36_Witness ==
  \E t \in OpThreads :
    /\ th[t].pc = "sp_settings"
    /\ \E n \in Range(table) :
         /\ IdleExpired(n)
         /\ objs[Entry(n)].status = "running"
         /\ objs[Entry(n)].last_active < now

\* C37: a table entry without process handle has no start_timestamp, and a
\* status_payload reports it with started_at and uptime_seconds null
C37_NoChildNoTimestamp ==
  \A t \in OpThreads :
    th[t].pc = "sp_settings" =>
      \A n \in Range(table) :
        objs[Entry(n)].process = NoPid =>
          /\ objs[Entry(n)].start_timestamp = NoTime
          /\ started_at(objs[Entry(n)]) = NoTime
          /\ uptime_seconds(objs[Entry(n)]) = NoUptime

\* start_model(n) has been called and has got as far as Popen: a child was
\* spawned for n, or the spawn failed
Launched(n) ==
  \/ \E p \in DOMAIN procs : procs[p].name = n
  \/ last[n] = "spawn_failed"

\* C38: when start_initial_models has returned, start_model has been called
\* for every model that is not JIT-enabled, whatever became of the calls
\* before it, and for no JIT-enabled model
C38_StartInitialModels ==
  (th[Main].pc = "idle" /\ th[Main].route = "none") =>
    \A n \in Range(table) :
      IF objs[Entry(n)].config.jit_enabled
      THEN ~Launched(n) /\ objs[Entry(n)].status = "configured"
      ELSE Launched(n)

\* C38 witness: start_initial_models has returned; the start of the first
\* model raised and the second model is running
C38_Witness ==
  /\ phase = "serve" /\ th[Main].pc = "idle"
  /\ last[table[1]] \in {"spawn_failed", "health_failed"}
  /\ last[table[2]] = "started" /\ is_running(Entry(table[2]))

\* a request_shutdown is served in this step: the call is counted and
\* answered at once, no thread is left at work on it
ShutdownStep == ops' = ops + 1 /\ th' = th /\ reply'.route = "shutdown"

\* C39: request_shutdown succeeds and changes no ModelState and no child;
\* it sets the exit flag and the stop event, and should_exit of the
\* server if one is attached; once the stop event is set the monitor begins
\* no tick; no other step sets the exit flag
C39_Shutdown ==
  /\ [][ShutdownStep =>
          /\ UNCHANGED <<hub_config, table, gen, objs, procs, lock>>
          /\ reply'.status_code = 200
          /\ should_exit' /\ stop_event'
          /\ server_exit' = (server \/ server_exit)]_vars
  /\ [][stop_event => ~(th[Monitor].pc = "idle" /\ th'[Monitor].pc # "idle")]_vars
  /\ [][should_exit' # should_exit => ShutdownStep]_vars

\* C39 witness: request_shutdown has been served by a runtime without
\* attached server while a model is running, and its child is still alive
C39_Witness ==
  /\ ~server /\ ~server_exit
  /\ should_exit /\ stop_event
  /\ reply = HTTPAnswer("shutdown", NoErr)
  /\ \E n \in Range(table) : is_running(Entry(n)) /\ objs[Entry(n)].status = "running"

\* the state is as ModelProcessState(...) builds it
Fresh(st) ==
  /\ st.status = (IF st.config.jit_enabled THEN "configured" ELSE "stopped")
  /\ st.process = NoPid
  /\ st.return_code = NoCode
  /\ st.last_error = NoErr

\* the object becomes configured in this step
TurnsConfigured(r) ==
  /\ objs'[r].exists /\ objs'[r].status = "configured"
  /\ ~(objs[r].exists /\ objs[r].status = "configured")

====
